---- MODULE Spec2Model ----
(***************************************************************************)
(* Model of the lolalytics_scraper analysis core: the snapshot             *)
(* LOLALYTICS_DATA, the loader's format step, Roster construction          *)
(* (Champion._format_lolaytic_data) and the Roster / Champion analyses.    *)
(*                                                                         *)
(* Floats are modelled as exact rationals <<num, den>> in lowest terms     *)
(* with den > 0, plus the IEEE specials NaN = <<0,0>>, +Inf = <<1,0>> and  *)
(* -Inf = <<-1,0>>.  Python exceptions are modelled as outcomes            *)
(* [raised |-> "<ExceptionName>"].                                         *)
(***************************************************************************)
EXTENDS Integers, Sequences, FiniteSets, TLC

VARIABLES LOLALYTICS_DATA, pc, champions, call, result, cache, uses, calls_left,
          loader

vars == <<LOLALYTICS_DATA, pc, champions, call, result, cache, uses, calls_left,
          loader>>

(***************************************************************************)
(* Bounds of the model.                                                    *)
(***************************************************************************)
MaxOpponentChampions == 2
MaxPoolLen == 2
MaxCalls == 2
MaxPatches == 2
WinRateSteps == 40

ChampionIds == {1, 2, 3}
Roles == <<"top", "jungle", "middle", "bottom", "support">>
RoleSet == {Roles[i] : i \in 1..Len(Roles)}

(***************************************************************************)
(* Exact rational arithmetic with IEEE specials.                           *)
(***************************************************************************)
NaN == <<0, 0>>
PosInf == <<1, 0>>
NegInf == <<-1, 0>>

Abs(x) == IF x < 0 THEN -x ELSE x

RECURSIVE Gcd(_, _)
Gcd(a, b) == IF b = 0 THEN a ELSE Gcd(b, a % b)

Sign(x) == IF x > 0 THEN 1 ELSE IF x < 0 THEN -1 ELSE 0

\* A fraction n/d (d any integer) in canonical form; d = 0 gives a special.
Frac(n, d) ==
    IF d = 0 THEN <<Sign(n), 0>>
    ELSE LET g == Gcd(Abs(n), Abs(d))
             s == IF d < 0 THEN -1 ELSE 1
         IN  <<(s * n) \div g, (s * d) \div g>>

Num(n) == <<n, 1>>
Zero == Num(0)
One == Num(1)

IsNaN(x) == x = NaN
IsInf(x) == x[2] = 0 /\ x[1] # 0
IsFinite(x) == x[2] # 0

RNeg(x) == <<-x[1], x[2]>>

RAdd(x, y) ==
    IF IsNaN(x) \/ IsNaN(y) THEN NaN
    ELSE IF IsInf(x) /\ IsInf(y) THEN (IF x = y THEN x ELSE NaN)
    ELSE IF IsInf(x) THEN x
    ELSE IF IsInf(y) THEN y
    ELSE Frac(x[1] * y[2] + y[1] * x[2], x[2] * y[2])

RSub(x, y) == RAdd(x, RNeg(y))

RMul(x, y) ==
    IF IsNaN(x) \/ IsNaN(y) THEN NaN
    ELSE IF IsInf(x) \/ IsInf(y) THEN <<Sign(x[1]) * Sign(y[1]), 0>>
    ELSE Frac(x[1] * y[1], x[2] * y[2])

\* Division of numpy floats: x/0 is +-Inf, 0/0 is NaN, nothing is raised.
RDiv(x, y) ==
    IF IsNaN(x) \/ IsNaN(y) THEN NaN
    ELSE IF IsInf(x) /\ IsInf(y) THEN NaN
    ELSE IF IsInf(x) THEN <<Sign(x[1]) * (IF y[1] < 0 THEN -1 ELSE 1), 0>>
    ELSE IF IsInf(y) THEN Zero
    ELSE Frac(x[1] * y[2], x[2] * y[1])

RECURSIVE RPow(_, _)
RPow(x, k) == IF k = 0 THEN One ELSE RMul(x, RPow(x, k - 1))

\* Python's < and >= on floats: every comparison with NaN is False.
RLt(x, y) ==
    IF IsNaN(x) \/ IsNaN(y) THEN FALSE
    ELSE IF IsInf(x) \/ IsInf(y)
         THEN (IF IsInf(x) THEN 2 * x[1] ELSE 0) < (IF IsInf(y) THEN 2 * y[1] ELSE 0)
    ELSE x[1] * y[2] < y[1] * x[2]

RGe(x, y) == ~IsNaN(x) /\ ~IsNaN(y) /\ ~RLt(x, y)

RGt(x, y) == RLt(y, x)

(***************************************************************************)
(* Generic sequence helpers.                                               *)
(***************************************************************************)
Range(s) == {s[i] : i \in 1..Len(s)}

RECURSIVE SetToSeq(_)
\* The elements of a set of integers in ascending order.
SetToSeq(S) ==
    IF S = {} THEN <<>>
    ELSE LET m == CHOOSE x \in S : \A y \in S : x <= y
         IN  <<m>> \o SetToSeq(S \ {m})

\* Outcomes of a call: a returned value or a raised exception.
Raised(name) == [raised |-> name]
Returned(v) == [value |-> v]
\* KeyError(key): the exception carries the missing key and nothing else.
RaisedKeyError(key) == [raised |-> "KeyError", args |-> <<key>>]
IsRaised(r) == "raised" \in DOMAIN r
IsReturned(r) == "value" \in DOMAIN r

(***************************************************************************)
(* Match-up records and the two normalisation steps.                       *)
(*                                                                         *)
(* An enemy_<role> field is [isdict |-> FALSE, v |-> <<tuples>>] for a raw *)
(* sequence of <<opponent_id, matches, wins, _>> tuples and                *)
(* [isdict |-> TRUE, v |-> [id |-> record]] for the expanded mapping.      *)
(***************************************************************************)
\* {"matches": matches, "wins": wins, "win_rate": wins / matches}: Python's
\* true division raises ZeroDivisionError when matches is 0.
MatchupRecord(matches, wins) ==
    IF matches = 0 THEN Raised("ZeroDivisionError")
    ELSE Returned([matches |-> matches, wins |-> wins,
                   win_rate |-> Frac(wins, matches)])

\* The dict comprehension over a raw sequence: later tuples with the same
\* opponent id replace earlier ones; the fourth element is not read.
ExpandTuples(raw) ==
    IF \E i \in 1..Len(raw) : IsRaised(MatchupRecord(raw[i][2], raw[i][3]))
    THEN Raised("ZeroDivisionError")
    ELSE Returned(
        [k \in {raw[i][1] : i \in 1..Len(raw)} |->
            LET last == CHOOSE i \in 1..Len(raw) :
                            /\ raw[i][1] = k
                            /\ \A j \in 1..Len(raw) : raw[j][1] = k => j <= i
            IN  MatchupRecord(raw[last][2], raw[last][3]).value])

RECURSIVE FormatEnemyFields(_, _, _)
\* The loop over the five enemy roles shared by both normalisation steps,
\* from role number k on.  Champion._format_lolaytic_data skips a field that
\* is already a dict; the loader's step expands every field it finds, and
\* unpacking the keys of a dict as 4-tuples raises TypeError.  A blob
\* without the field makes the Champion's step raise KeyError; the loader's
\* step passes it by.  Returns the blob as far as it was rewritten and the
\* exception, if one was raised.
FormatEnemyFields(blob, k, is_loader) ==
    IF k > Len(Roles) THEN [data |-> blob, err |-> "none"]
    ELSE LET r == Roles[k]
             f == blob.enemy[r]
         IN  IF r \notin DOMAIN blob.enemy
             THEN IF is_loader
                  THEN FormatEnemyFields(blob, k + 1, is_loader)
                  ELSE [data |-> blob, err |-> "KeyError", key |-> "enemy_" \o r]
             ELSE IF f.isdict
             THEN IF is_loader /\ DOMAIN f.v # {}
                  THEN [data |-> blob, err |-> "TypeError"]
                  ELSE FormatEnemyFields(blob, k + 1, is_loader)
             ELSE LET e == ExpandTuples(f.v)
                  IN  IF IsRaised(e) THEN [data |-> blob, err |-> e.raised]
                      ELSE FormatEnemyFields(
                               [blob EXCEPT !.enemy[r] = [isdict |-> TRUE, v |-> e.value]],
                               k + 1, is_loader)

format_lolaytic_data(blob) == FormatEnemyFields(blob, 1, FALSE)

\* The <<champion_id, role_key>> pairs of a snapshot in iteration order.
RoleKeys(data, id) == SelectSeq(Roles, LAMBDA r : r \in DOMAIN data[id])

RECURSIVE BlobKeys(_, _)
BlobKeys(data, ids) ==
    IF ids = <<>> THEN <<>>
    ELSE LET id == Head(ids)
             ks == RoleKeys(data, id)
         IN  [i \in 1..Len(ks) |-> [id |-> id, key |-> ks[i]]] \o BlobKeys(data, Tail(ids))

AllBlobKeys(data) == BlobKeys(data, SetToSeq(DOMAIN data))

RECURSIVE FormatBlobs(_, _, _, _)
\* Both steps rewrite the blobs in place, one after the other, and stop at
\* the first exception: blobs already rewritten stay rewritten.  After
\* creating a Champion, _create_champions reads its role from the header.
FormatBlobs(data, todo, i, is_loader) ==
    IF i > Len(todo) THEN [data |-> data, err |-> "none"]
    ELSE LET id == todo[i].id
             key == todo[i].key
             r == FormatEnemyFields(data[id][key], 1, is_loader)
             d2 == [data EXCEPT ![id][key] = r.data]
         IN  IF r.err # "none" THEN [r EXCEPT !.data = d2]
             ELSE IF ~is_loader /\ "header" \notin DOMAIN r.data
             THEN [data |-> d2, err |-> "KeyError", key |-> "header"]
             ELSE FormatBlobs(d2, todo, i + 1, is_loader)

\* format_lolalytics_data on the raw data of one patch: every champion-role
\* occurs in one patch only, so each reformatted blob is passed through.
format_lolalytics_data(data) == FormatBlobs(data, AllBlobKeys(data), 1, TRUE)

\* The one Roster object, and the Champion created from blob [id][key] with
\* its back-reference (lines 32-34).
RosterObject == [roster |-> TRUE]
Champion(id, key, roster) == [id |-> id, key |-> key, roster |-> roster]

RECURSIVE PutChampion(_, _, _)
\* self._champions.setdefault(champion_id, {})[champion.role] = champion on
\* the insertion-ordered entries of one champion id.
PutChampion(entries, lane, champion) ==
    IF entries = <<>> THEN <<[lane |-> lane, champion |-> champion]>>
    ELSE IF Head(entries).lane = lane
         THEN <<[lane |-> lane, champion |-> champion]>> \o Tail(entries)
         ELSE <<Head(entries)>> \o PutChampion(Tail(entries), lane, champion)

RECURSIVE ChampionEntries(_, _, _, _)
ChampionEntries(data, id, ks, entries) ==
    IF ks = <<>> THEN entries
    ELSE ChampionEntries(data, id, Tail(ks),
             PutChampion(entries, data[id][Head(ks)].header.lane,
                         Champion(id, Head(ks), RosterObject)))

RECURSIVE ChampionsTuple(_, _)
\* Roster.champions: the values of the values of _champions, in order.  A
\* Champion object is named by the blob it wraps, [id, key].
ChampionsTuple(data, ids) ==
    IF ids = <<>> THEN <<>>
    ELSE LET es == ChampionEntries(data, Head(ids), RoleKeys(data, Head(ids)), <<>>)
         IN  [i \in 1..Len(es) |-> es[i].champion] \o ChampionsTuple(data, Tail(ids))

\* Roster._create_champions: one Champion per blob, formatted on creation.
create_champions(data) == FormatBlobs(data, AllBlobKeys(data), 1, FALSE)

\* The exception a normalisation step ended with.
RaisedBy(r) == IF r.err = "KeyError" THEN RaisedKeyError(r.key) ELSE Raised(r.err)

(***************************************************************************)
(* Elo ratings.  A rating e is held as the number 10^(-e/400), so that     *)
(* every value is exact: -400 * log10(x) is held as x, the rating 0 as 1,  *)
(* +Inf as 0 and -Inf as +Inf; a greater rating has a smaller number.       *)
(***************************************************************************)
\* Python's min(a, b) and max(a, b): b wins only when it compares smaller
\* (greater), so a NaN in second place is never chosen.
Min(a, b) == IF RLt(b, a) THEN b ELSE a
Max(a, b) == IF RGt(b, a) THEN b ELSE a

\* -400 * np.log10(x): NaN for a negative x.
Log10Rating(x) == IF IsNaN(x) \/ RLt(x, Zero) THEN NaN ELSE x

\* The conversion without the clamp of line 17.
win_rate_to_elo_Unclamped(win_rate) ==
    IF win_rate = Zero THEN PosInf
    ELSE IF win_rate = One THEN Zero
    ELSE Log10Rating(RSub(RDiv(One, win_rate), One))

win_rate_to_elo(win_rate) ==
    LET clamped == Max(Zero, Min(One, win_rate))
    IN  IF clamped = Zero THEN PosInf
        ELSE IF clamped = One THEN Zero
        ELSE Log10Rating(RSub(RDiv(One, clamped), One))

\* 10 ** (x / 400) for the rating held as elo: the reciprocal.
TenToThe(elo) == RDiv(One, elo)

\* 10 ** (-x / 400) for the rating held as elo.
TenToTheMinus(elo) == elo

\* The conversion with 10 ** (elo / 400).
elo_to_win_rate_SignLost(elo) == RDiv(One, RAdd(One, TenToThe(elo)))

elo_to_win_rate(elo) == RDiv(One, RAdd(One, TenToTheMinus(elo)))

\* self_base_elo - opponent_base_elo
EloDifference(a, b) == RDiv(a, b)

\* Order and special values of ratings.
EloLess(a, b) == RLt(b, a)
EloNegInf == PosInf
EloPosInf == Zero
EloZero == One
EloIsFinite(a) == IsFinite(a) /\ a # Zero

(***************************************************************************)
(* Champion: the accessors of one profile.  c and o are Champion objects   *)
(* of the constructed roster.                                              *)
(***************************************************************************)
Data(c) == LOLALYTICS_DATA[c.id][c.key]

role(c) == Data(c).header.lane

n(c) == Data(c).header.n

pick_rate(c) == Frac(Data(c).header.pr, 100)

role_assignment(c) == Frac(Data(c).nav.lanes[role(c)], 100)

raw_win_rate(c) == Frac(Data(c).header.wr, 100)

rank_normalized_win_rate(c) ==
    RSub(raw_win_rate(c), RSub(Frac(Data(c).avgWinRate, 100), Frac(1, 2)))

\* self._lolalytics_data[f"enemy_{champion.role}"].get(champion.id, {})
MatchupEntry(c, o) ==
    LET m == Data(c).enemy[role(o)].v
    IN  IF o.id \in DOMAIN m THEN m[o.id] ELSE [absent |-> TRUE]

\* The lookup with a default of 0 in place of np.nan.
get_raw_matchup_win_rate_by_champion_ZeroDefault(c, o) ==
    LET e == MatchupEntry(c, o)
    IN  IF "win_rate" \in DOMAIN e THEN e.win_rate ELSE Zero

get_raw_matchup_win_rate_by_champion(c, o) ==
    LET e == MatchupEntry(c, o)
    IN  IF "win_rate" \in DOMAIN e THEN e.win_rate ELSE NaN

\* A pandas Series over Roster.champions is a sequence aligned with it.
raw_matchup_win_rates(c) ==
    [i \in 1..Len(champions) |-> get_raw_matchup_win_rate_by_champion(c, champions[i])]

\* The average without mirroring the opponent's view.
NormalizedAverage_Unmirrored(self_vs_champion, champion_vs_self) ==
    RDiv(RAdd(self_vs_champion, champion_vs_self), Num(2))

\* Lines 91-94: (self_vs_champion + (1 - champion_vs_self)) / 2
NormalizedAverage(self_vs_champion, champion_vs_self) ==
    RDiv(RAdd(self_vs_champion, RSub(One, champion_vs_self)), Num(2))

get_normalized_matchup_by_champion(c, o) ==
    NormalizedAverage(get_raw_matchup_win_rate_by_champion(c, o),
                      get_raw_matchup_win_rate_by_champion(o, c))

normalized_matchup_win_rates(c) ==
    [i \in 1..Len(champions) |-> get_normalized_matchup_by_champion(c, champions[i])]

\* .get("matches", np.nan) / self.n with Python numbers: dividing by a zero
\* sample size raises.
MatchupPickRate(c, o) ==
    LET e == MatchupEntry(c, o)
    IN  IF n(c) = 0 THEN Raised("ZeroDivisionError")
        ELSE Returned(IF "matches" \in DOMAIN e THEN Frac(e.matches, n(c)) ELSE NaN)

matchup_pick_rates(c) ==
    IF n(c) = 0 THEN Raised("ZeroDivisionError")
    ELSE Returned([i \in 1..Len(champions) |-> MatchupPickRate(c, champions[i]).value])

\* Lines 110-114
get_champion_win_rate_without_opponent(c, o) ==
    RDiv(RSub(rank_normalized_win_rate(c),
              RMul(get_normalized_matchup_by_champion(c, o), MatchupPickRate(c, o).value)),
         RSub(One, MatchupPickRate(c, o).value))

\* Lines 103-108
get_expected_matchup_win_rate(c, o) ==
    LET self_base_elo == win_rate_to_elo(get_champion_win_rate_without_opponent(c, o))
        opponent_base_elo == win_rate_to_elo(get_champion_win_rate_without_opponent(o, c))
        matchup_elo_delta == EloDifference(self_base_elo, opponent_base_elo)
    IN  elo_to_win_rate(matchup_elo_delta)

\* The series is built from the match-up pick rates of both champions of
\* every pair, so a sample size of 0 anywhere raises.
expected_matchup_win_rates(c) ==
    IF \E i \in 1..Len(champions) : n(champions[i]) = 0
    THEN Raised("ZeroDivisionError")
    ELSE Returned([i \in 1..Len(champions) |->
                      get_expected_matchup_win_rate(c, champions[i])])

(***************************************************************************)
(* Roster: aggregate queries.                                              *)
(***************************************************************************)
\* Default thresholds of get_valid_champions.
min_champion_role_assignemnt_rate == Frac(2, 100)
min_champion_pick_rate == Frac(5, 1000)

\* Python's None, as an object and as the role argument of a query.
None == [none |-> TRUE]
NoRole == "None"

\* The filter with a strict comparison of the pick rate.
get_valid_champions_StrictPickRate(r, min_role_assignment, min_pick_rate) ==
    SelectSeq(champions,
              LAMBDA c : /\ (role(c) = r \/ r = NoRole)
                         /\ RGt(pick_rate(c), min_pick_rate)
                         /\ RGe(role_assignment(c), min_role_assignment))

get_valid_champions(r, min_role_assignment, min_pick_rate) ==
    SelectSeq(champions,
              LAMBDA c : /\ (role(c) = r \/ r = NoRole)
                         /\ RGe(pick_rate(c), min_pick_rate)
                         /\ RGe(role_assignment(c), min_role_assignment))

\* get_valid_champions(role) with the default thresholds
DefaultValid(r) ==
    get_valid_champions(r, min_champion_role_assignemnt_rate, min_champion_pick_rate)

\* champion.role_assignment reads nav.lanes of every champion that passed the
\* role and the pick-rate test; a blob without it raises KeyError.
get_valid_champions_result(r, min_role_assignment, min_pick_rate) ==
    IF \E i \in 1..Len(champions) :
           /\ (role(champions[i]) = r \/ r = NoRole)
           /\ RGe(pick_rate(champions[i]), min_pick_rate)
           /\ "lanes" \notin DOMAIN Data(champions[i]).nav
    THEN RaisedKeyError("lanes")
    ELSE Returned(get_valid_champions(r, min_role_assignment, min_pick_rate))

\* The outcome of a method that starts with get_valid_champions(role) and
\* then computes value.
AfterValidChampions(r, value) ==
    LET valid == get_valid_champions_result(r, min_champion_role_assignemnt_rate,
                                            min_champion_pick_rate)
    IN  IF IsRaised(valid) THEN valid ELSE Returned(value)

\* Roster.pick_rates
pick_rates == [i \in 1..Len(champions) |-> pick_rate(champions[i])]

RECURSIVE SumSkipNa(_)
\* pandas Series.sum(): NaN entries are skipped, the empty sum is 0.
SumSkipNa(s) ==
    IF s = <<>> THEN Zero
    ELSE IF IsNaN(Head(s)) THEN SumSkipNa(Tail(s))
    ELSE RAdd(Head(s), SumSkipNa(Tail(s)))

SeriesMul(a, b) == [i \in 1..Len(a) |-> RMul(a[i], b[i])]

matchup_normalized_win_rate(c) ==
    LET roster_pick_rate == pick_rates
        matchup_win_rates == normalized_matchup_win_rates(c)
    IN  RDiv(SumSkipNa(SeriesMul(matchup_win_rates, roster_pick_rate)),
             SumSkipNa(roster_pick_rate))

(***************************************************************************)
(* Python's sorted(list, key=...) for lists shorter than 64 elements: the  *)
(* initial run is found (and reversed when strictly descending), the rest  *)
(* is inserted by binary insertion.  s is a sequence of [key, item].       *)
(***************************************************************************)
RECURSIVE RunEnd(_, _, _)
RunEnd(s, i, descending) ==
    IF i > Len(s) THEN i - 1
    ELSE IF RLt(s[i].key, s[i - 1].key) = descending THEN RunEnd(s, i + 1, descending)
    ELSE i - 1

CountRun(s) ==
    IF Len(s) = 1 THEN [n |-> 1, descending |-> FALSE]
    ELSE LET d == RLt(s[2].key, s[1].key)
         IN  [n |-> RunEnd(s, 3, d), descending |-> d]

Reverse(s) == [i \in 1..Len(s) |-> s[Len(s) + 1 - i]]

RECURSIVE BinPos(_, _, _, _)
BinPos(s, pivot, l, r) ==
    IF l >= r THEN l
    ELSE LET p == l + ((r - l) \div 2)
         IN  IF RLt(pivot, s[p].key) THEN BinPos(s, pivot, l, p)
             ELSE BinPos(s, pivot, p + 1, r)

RECURSIVE BinarySort(_, _)
BinarySort(s, start) ==
    IF start > Len(s) THEN s
    ELSE LET pos == BinPos(s, s[start].key, 1, start)
         IN  BinarySort(SubSeq(s, 1, pos - 1) \o <<s[start]>>
                            \o SubSeq(s, pos, start - 1)
                            \o SubSeq(s, start + 1, Len(s)),
                        start + 1)

sorted(s) ==
    IF Len(s) < 2 THEN s
    ELSE LET run == CountRun(s)
             s1 == IF run.descending
                   THEN Reverse(SubSeq(s, 1, run.n)) \o SubSeq(s, run.n + 1, Len(s))
                   ELSE s
         IN  BinarySort(s1, run.n + 1)

RECURSIVE Remove(_, _)
\* list.remove(x) guarded by "x in list": drops the first occurrence.
Remove(s, x) ==
    IF s = <<>> THEN <<>>
    ELSE IF Head(s) = x THEN Tail(s)
    ELSE <<Head(s)>> \o Remove(Tail(s), x)

(***************************************************************************)
(* Champion.blind_expected_win_rate                                        *)
(***************************************************************************)
\* Lines 159-166: the valid champions of the caller's role sorted by the
\* caller's raw match-up win rate, without the caller and the ignored one.
opponent_champions(c, ignore_champion) ==
    LET valid == get_valid_champions(role(c), min_champion_role_assignemnt_rate,
                                     min_champion_pick_rate)
        keyed == [i \in 1..Len(valid) |->
                     [key |-> get_raw_matchup_win_rate_by_champion(c, valid[i]),
                      item |-> valid[i]]]
        srt == sorted(keyed)
        ordered == [i \in 1..Len(srt) |-> srt[i].item]
        no_self == Remove(ordered, c)
    IN  IF ignore_champion # None THEN Remove(no_self, ignore_champion) ELSE no_self

\* Line 174 with the power added instead of subtracted.
probabillity_in_opponent_champ_pool_SignFlipped(o, num_opponent_champions) ==
    RAdd(One, RPow(RSub(One, pick_rate(o)), num_opponent_champions))

probabillity_in_opponent_champ_pool(o, num_opponent_champions) ==
    RSub(One, RPow(RSub(One, pick_rate(o)), num_opponent_champions))

RECURSIVE percent_remaining_after(_, _, _)
\* Lines 169-179: percent_opponents_remaining after the first i opponents.
percent_remaining_after(opps, i, num_opponent_champions) ==
    IF i = 0 THEN One
    ELSE RSub(percent_remaining_after(opps, i - 1, num_opponent_champions),
              RMul(probabillity_in_opponent_champ_pool(opps[i], num_opponent_champions),
                   percent_remaining_after(opps, i - 1, num_opponent_champions)))

RECURSIVE probabillity_assigned(_, _, _)
\* The sum of probabillity_picked over the first i opponents.
probabillity_assigned(opps, i, num_opponent_champions) ==
    IF i = 0 THEN Zero
    ELSE RAdd(probabillity_assigned(opps, i - 1, num_opponent_champions),
              RMul(probabillity_in_opponent_champ_pool(opps[i], num_opponent_champions),
                   percent_remaining_after(opps, i - 1, num_opponent_champions)))

RECURSIVE BlindLoop(_, _, _, _, _, _)
\* Lines 169-181: the loop over the sorted opponents.
BlindLoop(c, opps, i, num_opponent_champions, percent_opponents_remaining, cumulative_win_rate) ==
    IF i > Len(opps) THEN cumulative_win_rate
    ELSE LET probabillity_picked ==
                 RMul(probabillity_in_opponent_champ_pool(opps[i], num_opponent_champions),
                      percent_opponents_remaining)
         IN  BlindLoop(c, opps, i + 1, num_opponent_champions,
                       RSub(percent_opponents_remaining, probabillity_picked),
                       RAdd(cumulative_win_rate,
                            RMul(probabillity_picked,
                                 get_raw_matchup_win_rate_by_champion(c, opps[i]))))

blind_expected_win_rate(c, num_opponent_champions, ignore_champion) ==
    BlindLoop(c, opponent_champions(c, ignore_champion), 1, num_opponent_champions, One, Zero)

\* The candidates of a ban: the valid champions of the caller's role, the
\* caller itself skipped (`if opponent_champion is self: continue`).
ban_candidates(c) ==
    SelectSeq(get_valid_champions(role(c), min_champion_role_assignemnt_rate,
                                  min_champion_pick_rate),
              LAMBDA o : o # c)

RECURSIVE BestBanLoop(_, _, _, _, _, _)
\* Lines 196-205: a candidate replaces the best one only when its value
\* compares strictly greater.
BestBanLoop(c, cands, i, num_opponent_champions, best_ban, best_ban_blind_expected_win_rate) ==
    IF i > Len(cands)
    THEN [best_ban |-> best_ban,
          best_ban_blind_expected_win_rate |-> best_ban_blind_expected_win_rate]
    ELSE LET opponent_champion_ban_blind_expected_win_rate ==
                 blind_expected_win_rate(c, num_opponent_champions, cands[i])
         IN  IF RGt(opponent_champion_ban_blind_expected_win_rate,
                    best_ban_blind_expected_win_rate)
             THEN BestBanLoop(c, cands, i + 1, num_opponent_champions, cands[i],
                              opponent_champion_ban_blind_expected_win_rate)
             ELSE BestBanLoop(c, cands, i + 1, num_opponent_champions, best_ban,
                              best_ban_blind_expected_win_rate)

best_blind_ban(c, num_opponent_champions) ==
    BestBanLoop(c, ban_candidates(c), 1, num_opponent_champions, None, NegInf)

(***************************************************************************)
(* Roster.analyze_champion_pool                                            *)
(***************************************************************************)
\* The attributes and properties class Champion defines.
ChampionAttributes ==
    {"id", "_lolalytics_data", "_roster", "name", "role", "n", "raw_win_rate",
     "rank_normalized_win_rate", "pick_rate", "role_assignment",
     "raw_matchup_win_rates", "normalized_matchup_win_rates",
     "expected_matchup_win_rates", "matchup_normalized_win_rate",
     "matchup_pick_rates", "pick_rate_delta"}

RECURSIVE InsertDescending(_, _)
\* x goes behind every element whose key is not smaller than its own.
InsertDescending(s, x) ==
    IF s = <<>> THEN <<x>>
    ELSE IF RLt(Head(s).key, x.key) THEN <<x>> \o s
    ELSE <<Head(s)>> \o InsertDescending(Tail(s), x)

RECURSIVE SortDescending(_, _)
SortDescending(s, acc) ==
    IF s = <<>> THEN acc
    ELSE SortDescending(Tail(s), InsertDescending(acc, Head(s)))

\* pandas Series.sort_values(ascending=False) on a sequence of [key, item]:
\* the entries with a value in descending order, equal values in their
\* original order, the NaN entries last.
sort_values_descending(s) ==
    SortDescending(SelectSeq(s, LAMBDA x : ~IsNaN(x.key)), <<>>)
        \o SelectSeq(s, LAMBDA x : IsNaN(x.key))

\* pd.NA
NA == [na |-> TRUE]

\* Lines 204-254 for one opponent: an empty counterpick pool makes
\* opponent_win_rates.index[0] raise IndexError; reading the attribute
\* normalized_matchup_N of a Champion raises AttributeError.
MatchupRow(champion_pool, opponent_champion) ==
    LET counterpick_pool == SelectSeq(champion_pool, LAMBDA c : c # opponent_champion)
        opponent_win_rates ==
            sort_values_descending(
                [i \in 1..Len(counterpick_pool) |->
                    [key |-> get_normalized_matchup_by_champion(counterpick_pool[i],
                                                                opponent_champion),
                     item |-> counterpick_pool[i]]])
    IN  IF counterpick_pool = <<>> THEN Raised("IndexError")
        ELSE IF "normalized_matchup_N" \notin ChampionAttributes THEN Raised("AttributeError")
        ELSE Returned([opponent |-> opponent_champion,
                       counterpick_pool |-> counterpick_pool,
                       best_counterpick |-> opponent_win_rates[1].item,
                       best_counterpick_win_rate |-> opponent_win_rates[1].key,
                       second_best_counterpick |->
                           IF Len(counterpick_pool) > 1 THEN opponent_win_rates[2].item
                           ELSE None,
                       second_best_counterpick_win_rate |->
                           IF Len(counterpick_pool) > 1 THEN opponent_win_rates[2].key
                           ELSE NA])

RECURSIVE MatchupRows(_, _, _, _)
\* The loop of lines 203-254: stops at the first row that raises.
MatchupRows(champion_pool, opps, i, rows) ==
    IF i > Len(opps) THEN Returned(rows)
    ELSE LET row == MatchupRow(champion_pool, opps[i])
         IN  IF IsRaised(row) THEN row
             ELSE MatchupRows(champion_pool, opps, i + 1, Append(rows, row.value))

\* The assertion with any() in place of all().
SameRole_Any(champion_pool, r) ==
    \E i \in 1..Len(champion_pool) : role(champion_pool[i]) = r

\* Line 199: all(champion.role == role for champion in champion_pool)
SameRole(champion_pool, r) ==
    \A i \in 1..Len(champion_pool) : role(champion_pool[i]) = r

analyze_champion_pool(champion_pool) ==
    IF champion_pool = <<>> THEN Raised("IndexError")
    ELSE LET r == role(champion_pool[1])
         IN  IF ~SameRole(champion_pool, r)
             THEN Raised("AssertionError")
             ELSE LET valid == get_valid_champions_result(
                                   r, min_champion_role_assignemnt_rate, min_champion_pick_rate)
                      matchups == MatchupRows(champion_pool, valid.value, 1, <<>>)
                  IN  IF IsRaised(valid) THEN valid
                      ELSE IF IsRaised(matchups) THEN matchups
                      ELSE IF matchups.value = <<>>
                      THEN RaisedKeyError("Opponent Pick Rate")
                      ELSE Returned([matchups_df |-> matchups.value])

(***************************************************************************)
(* Properties and their memo.  functools.cached_property stores the value  *)
(* of the first access in the instance; a plain @property runs its body on *)
(* every access.  cache maps [owner, name] to the stored value; uses counts *)
(* for each property how often it was read and how often its body ran.     *)
(***************************************************************************)
Key(owner, name) == [owner |-> owner, name |-> name]

\* The properties declared with functools.cached_property when
\* raw_matchup_win_rates is declared with @property.
CachedNames_RawUncached ==
    {"champions", "pick_rates", "raw_win_rates", "rank_normalized_win_rates",
     "matchup_normalized_win_rates",
     "normalized_matchup_win_rates", "expected_matchup_win_rates",
     "matchup_normalized_win_rate", "matchup_pick_rates", "pick_rate_delta"}

\* The properties declared with functools.cached_property, of Roster and of
\* Champion.
CachedNames ==
    {"champions", "pick_rates", "raw_win_rates", "rank_normalized_win_rates",
     "matchup_normalized_win_rates",
     "raw_matchup_win_rates", "normalized_matchup_win_rates", "expected_matchup_win_rates",
     "matchup_normalized_win_rate", "matchup_pick_rates", "pick_rate_delta"}

\* The derived metrics of a champion and the aggregate series of the roster.
DerivedNames ==
    {"rank_normalized_win_rate", "raw_matchup_win_rates", "normalized_matchup_win_rates",
     "expected_matchup_win_rates", "matchup_pick_rates", "pick_rate_delta",
     "matchup_normalized_win_rate",
     "champions", "pick_rates", "raw_win_rates", "rank_normalized_win_rates",
     "matchup_normalized_win_rates"}

OverChampions(name) == [i \in 1..Len(champions) |-> Key(champions[i], name)]

RECURSIVE Flatten(_)
Flatten(ss) == IF ss = <<>> THEN <<>> ELSE Head(ss) \o Flatten(Tail(ss))

\* The properties the body of property k reads, in program order.
\* get_valid_champion_index stands for the two generators of lines 139-146.
Deps(k) ==
    LET c == k.owner
        R == RosterObject
    IN  CASE k.name = "champions" -> <<>>
          [] k.name \in {"pick_rates", "raw_win_rates"} -> <<Key(R, "champions")>>
          [] k.name = "rank_normalized_win_rates" ->
                 <<Key(R, "champions")>> \o OverChampions("rank_normalized_win_rate")
          [] k.name = "matchup_normalized_win_rates" ->
                 <<Key(R, "champions")>> \o OverChampions("matchup_normalized_win_rate")
          [] k.name \in {"raw_matchup_win_rates", "normalized_matchup_win_rates",
                         "matchup_pick_rates", "get_valid_champion_index"} ->
                 <<Key(R, "champions")>>
          [] k.name = "matchup_normalized_win_rate" ->
                 <<Key(R, "pick_rates"), Key(c, "normalized_matchup_win_rates")>>
          [] k.name = "pick_rate_delta" ->
                 <<Key(R, "pick_rates"), Key(c, "get_valid_champion_index"),
                   Key(c, "matchup_pick_rates")>>
          [] k.name = "expected_matchup_win_rates" ->
                 <<Key(R, "champions")>> \o
                 Flatten([i \in 1..Len(champions) |->
                     <<Key(c, "rank_normalized_win_rate"),
                       Key(c, "normalized_matchup_win_rates"),
                       Key(c, "matchup_pick_rates"),
                       Key(champions[i], "rank_normalized_win_rate"),
                       Key(champions[i], "normalized_matchup_win_rates"),
                       Key(champions[i], "matchup_pick_rates")>>])
          [] k.name = "rank_normalized_win_rate" -> <<>>

\* Lines 137-148: the pick rates of the champions of the role of c divided by
\* 1 - pick_rate / 2, the others as they are.
normalized_roster_pick_rate(c, roster_pick_rate) ==
    LET valid == Range(get_valid_champions(role(c), Zero, Zero))
    IN  [i \in 1..Len(champions) |->
            IF champions[i] \in valid
            THEN RDiv(roster_pick_rate[i], RSub(One, RDiv(pick_rate(c), Num(2))))
            ELSE roster_pick_rate[i]]

\* Line 150
pick_rate_delta(c, roster_pick_rate) ==
    LET normalized == normalized_roster_pick_rate(c, roster_pick_rate)
        picks == matchup_pick_rates(c).value
    IN  [i \in 1..Len(champions) |-> RSub(picks[i], RDiv(normalized[i], Num(2)))]

\* The outcome of the body of property k when the properties it reads are
\* stored in cch.
Body(k, cch) ==
    LET c == k.owner
    IN  CASE k.name = "champions" -> Returned(champions)
          [] k.name = "pick_rates" -> Returned(pick_rates)
          [] k.name = "raw_win_rates" ->
                 Returned([i \in 1..Len(champions) |-> raw_win_rate(champions[i])])
          [] k.name = "rank_normalized_win_rates" ->
                 Returned([i \in 1..Len(champions) |->
                              rank_normalized_win_rate(champions[i])])
          [] k.name = "matchup_normalized_win_rates" ->
                 Returned([i \in 1..Len(champions) |->
                              cch[Key(champions[i], "matchup_normalized_win_rate")]])
          [] k.name = "raw_matchup_win_rates" -> Returned(raw_matchup_win_rates(c))
          [] k.name = "normalized_matchup_win_rates" ->
                 Returned(normalized_matchup_win_rates(c))
          [] k.name = "matchup_pick_rates" -> matchup_pick_rates(c)
          [] k.name = "get_valid_champion_index" ->
                 get_valid_champions_result(role(c), Zero, Zero)
          [] k.name = "matchup_normalized_win_rate" ->
                 Returned(RDiv(SumSkipNa(SeriesMul(cch[Key(c, "normalized_matchup_win_rates")],
                                                   cch[Key(RosterObject, "pick_rates")])),
                               SumSkipNa(cch[Key(RosterObject, "pick_rates")])))
          [] k.name = "pick_rate_delta" ->
                 Returned(pick_rate_delta(c, cch[Key(RosterObject, "pick_rates")]))
          [] k.name = "expected_matchup_win_rates" -> expected_matchup_win_rates(c)
          [] k.name = "rank_normalized_win_rate" -> Returned(rank_normalized_win_rate(c))

\* The body of pick_rate_delta assigning into the cached series itself.
BodyWrites_NoCopy(k, cch) ==
    IF k.name = "pick_rate_delta"
    THEN [cch EXCEPT ![Key(RosterObject, "pick_rates")] =
                         normalized_roster_pick_rate(k.owner, @)]
    ELSE cch

\* What the body of property k writes into stored values: nothing.  The
\* only assignment, lines 138-148, goes to the copy made in line 137.
BodyWrites(k, cch) ==
    IF k.name = "pick_rate_delta"
    THEN LET roster_pick_rate == cch[Key(RosterObject, "pick_rates")]
             assigned == normalized_roster_pick_rate(k.owner, roster_pick_rate)
         IN  cch
    ELSE cch

Put(f, k, v) == [x \in DOMAIN f \cup {k} |-> IF x = k THEN v ELSE f[x]]

NoUse == [reads |-> 0, computed |-> 0]

Used(u, k, reads, computed) ==
    IF k.name \notin DerivedNames THEN u
    ELSE LET old == IF k \in DOMAIN u THEN u[k] ELSE NoUse
         IN  Put(u, k, [reads |-> old.reads + reads, computed |-> old.computed + computed])

\* The entries of the work list of a call: read property k, or run the body
\* of k now that the properties it reads have been read.
ReadOf(k) == [key |-> k, body |-> FALSE]
BodyOf(k) == [key |-> k, body |-> TRUE]

\* The memo after the body of property k returned v: the value is stored
\* if k is a cached_property.
Computed(st, k, v) ==
    IF IsRaised(v) THEN [st EXCEPT !.err = v]
    ELSE [cache |-> IF k.name \in CachedNames
                    THEN Put(BodyWrites(k, st.cache), k, v.value)
                    ELSE st.cache,
          uses |-> Used(st.uses, k, 1, 1),
          err |-> st.err,
          value |-> v.value]

\* The memo after a stored value was read.
Stored(st, k) == [st EXCEPT !.uses = Used(@, k, 1, 0), !.value = st.cache[k]]

ReadAll(ks) == [i \in 1..Len(ks) |-> ReadOf(ks[i])]

RECURSIVE GetAll(_, _)
\* The accesses todo, in order, in the state st = [cache, uses, err, value]
\* of the memo.  Reading a stored cached_property returns it; reading any
\* other property first reads what its body reads and then runs the body.
\* value is what the last access returned.  An exception ends everything.
GetAll(st, todo) ==
    IF todo = <<>> \/ IsRaised(st.err) THEN st
    ELSE IF Head(todo).body
    THEN GetAll(Computed(st, Head(todo).key, Body(Head(todo).key, st.cache)), Tail(todo))
    ELSE IF Head(todo).key.name \in CachedNames /\ Head(todo).key \in DOMAIN st.cache
    THEN GetAll(Stored(st, Head(todo).key), Tail(todo))
    ELSE GetAll(st, ReadAll(Deps(Head(todo).key)) \o <<BodyOf(Head(todo).key)>>
                        \o Tail(todo))

(***************************************************************************)
(* Snapshots: the inputs the model draws LOLALYTICS_DATA from.             *)
(***************************************************************************)
UsedLanes == {"top", "middle"}

\* header.pr and nav.lanes[lane] of a profile, both in percent.
Kinds == {[pr |-> 50, la |-> 100], [pr |-> 0, la |-> 1]}

\* header.n, the sample size of a profile.
SampleSizes == {8}

\* <<matches, wins>> of a recorded match-up, or NoEntry for no entry.
Counts == {<<4, 1>>, <<4, 2>>, <<0, 0>>}
NoEntry == <<>>
EntryChoices == {NoEntry} \cup Counts

Pairs == {p \in ChampionIds \X ChampionIds : p[1] # p[2]}

\* The match-ups that involve champion 2 range over every choice; the two
\* between champions 1 and 3 are recorded with fixed counts.
FreePairs == {p \in Pairs : 2 \in {p[1], p[2]}}
FixedCounts == [p \in Pairs \ FreePairs |-> IF p[1] < p[2] THEN <<4, 3>> ELSE <<4, 2>>]
MatchupChoices ==
    {[p \in Pairs |-> IF p \in FreePairs THEN F[p] ELSE FixedCounts[p]] :
        F \in [FreePairs -> EntryChoices]}

\* Champions 1 and 2 play middle; champion 3 plays middle or top.
LaneChoices == {L \in [ChampionIds -> UsedLanes] : L[1] = "middle" /\ L[2] = "middle"}

RECURSIVE RawTuples(_, _, _, _)
\* The raw enemy_<r> sequence of champion a: one tuple per recorded opponent
\* of lane r, in ascending id order; the fourth element is never read.
RawTuples(a, ids, L, M) ==
    IF ids = <<>> THEN <<>>
    ELSE LET o == Head(ids)
         IN  (IF o # a /\ L.lane[o] = L.r /\ M[<<a, o>>] # NoEntry
              THEN <<<<o, M[<<a, o>>][1], M[<<a, o>>][2], 0>>>>
              ELSE <<>>) \o RawTuples(a, Tail(ids), L, M)

Blob(a, L, K, M, size) ==
    [header |-> [lane |-> L[a], n |-> size, pr |-> K[a].pr, wr |-> 52],
     avgWinRate |-> 51,
     nav |-> [lanes |-> [r \in RoleSet |-> IF r = L[a] THEN K[a].la ELSE 0]],
     enemy |-> [r \in RoleSet |->
                   [isdict |-> FALSE,
                    v |-> RawTuples(a, SetToSeq(ChampionIds), [lane |-> L, r |-> r], M)]]]

\* A snapshot: champion_id -> role -> blob, each champion under its own lane.
Snapshot(L, K, M, size) ==
    [a \in ChampionIds |-> [r \in {L[a]} |-> Blob(a, L, K, M, size)]]

EmptySnapshot == [a \in {} |-> 0]

\* What a blob of a malformed snapshot lacks: its header, nav.lanes or one
\* of the five enemy_<role> fields.
Without(f, key) == [x \in DOMAIN f \ {key} |-> f[x]]

Defects == {"header", "lanes"} \cup {"enemy_" \o r : r \in RoleSet}

Defective(blob, defect) ==
    IF defect = "header" THEN Without(blob, "header")
    ELSE IF defect = "lanes" THEN [blob EXCEPT !.nav = Without(blob.nav, "lanes")]
    ELSE [blob EXCEPT !.enemy =
             [r \in {x \in RoleSet : "enemy_" \o x # defect} |-> blob.enemy[r]]]

\* Snapshots of valid champions with every match-up recorded, one blob of
\* which lacks one key.
MalformedSnapshots ==
    {[s EXCEPT ![a] = [r \in DOMAIN s[a] |-> Defective(s[a][r], defect)]] :
        s \in {Snapshot(L, [b \in ChampionIds |-> [pr |-> 50, la |-> 100]], M, size) :
                  L \in LaneChoices, size \in SampleSizes,
                  M \in {X \in MatchupChoices : \A p \in Pairs : X[p] \in {<<4, 1>>, <<4, 2>>, <<4, 3>>}}},
        a \in ChampionIds, defect \in Defects}

Snapshots ==
    {EmptySnapshot} \cup
    {Snapshot(L, K, M, size) : L \in LaneChoices, K \in [ChampionIds -> Kinds],
                               M \in MatchupChoices, size \in SampleSizes}

(***************************************************************************)
(* The state machine.                                                      *)
(***************************************************************************)
NoCall == [op |-> "none", args |-> <<>>]
Idle == [idle |-> TRUE]

\* Nothing stored, nothing used yet.
Empty == [k \in {} |-> Idle]

memo == <<cache, uses, calls_left>>

\* update_lolalytics_champion_data is not running.
NoLoader == [pc |-> "idle"]

\* One call is made on the roster of each of the snapshots.
Init ==
    /\ LOLALYTICS_DATA \in Snapshots
    /\ pc = "raw"
    /\ champions = <<>>
    /\ call = NoCall
    /\ result = Idle
    /\ cache = Empty
    /\ uses = Empty
    /\ calls_left = 1
    /\ loader = NoLoader

\* load_data.format_lolalytics_data applied to the freshly loaded raw data,
\* or once more to the data it returned.
FormatLolalyticsData ==
    /\ pc \in {"raw", "formatted"}
    /\ LET r == format_lolalytics_data(LOLALYTICS_DATA)
       IN  /\ LOLALYTICS_DATA' = r.data
           /\ pc' = IF r.err = "none" THEN "formatted" ELSE "raised"
           /\ result' = IF r.err = "none" THEN Returned(None) ELSE RaisedBy(r)
    /\ call' = [op |-> "format_lolalytics_data", args |-> <<>>]
    /\ UNCHANGED <<champions, memo, loader>>

\* Roster.__init__
RosterInit ==
    /\ pc \in {"raw", "formatted"}
    /\ call' = [op |-> "Roster", args |-> <<>>]
    /\ UNCHANGED <<memo, loader>>
    /\ IF DOMAIN LOLALYTICS_DATA = {}
       THEN /\ result' = Raised("ValueError")
            /\ pc' = "raised"
            /\ UNCHANGED <<LOLALYTICS_DATA, champions>>
       ELSE LET r == create_champions(LOLALYTICS_DATA)
            IN  /\ LOLALYTICS_DATA' = r.data
                /\ IF r.err = "none"
                   THEN /\ pc' = "ready"
                        /\ champions' = ChampionsTuple(r.data, SetToSeq(DOMAIN r.data))
                        /\ result' = Returned(None)
                   ELSE /\ pc' = "raised"
                        /\ champions' = <<>>
                        /\ result' = RaisedBy(r)

ChampionSet == Range(champions)

\* Arguments of get_valid_champions: no threshold, the default, everything.
PickRateArgs == {Zero, min_champion_pick_rate, One}
RoleAssignmentArgs == {Zero, min_champion_role_assignemnt_rate, One}
RoleArgs == {NoRole} \cup UsedLanes

RECURSIVE SeqsUpTo(_, _)
SeqsUpTo(S, k) ==
    IF k = 0 THEN {<<>>}
    ELSE LET shorter == SeqsUpTo(S, k - 1)
         IN  shorter \cup {Append(q, x) : q \in shorter, x \in S}

\* What a call of an analysis on the constructed roster does to everything
\* but the snapshot and the profiles: it reads the properties keys in this
\* order and, unless one of them raised, ends with the outcome res.
\* LastRead stands for the value the last of these reads returned.
LastRead == [last_read |-> TRUE]

Outcome(st, res) ==
    /\ cache' = st.cache
    /\ uses' = st.uses
    /\ result' = IF IsRaised(st.err) THEN st.err
                 ELSE IF res = LastRead THEN Returned(st.value)
                 ELSE res

Effects(op, args, keys, res) ==
    /\ pc = "ready"
    /\ calls_left > 0
    /\ pc' = "called"
    /\ call' = [op |-> op, args |-> args]
    /\ calls_left' = calls_left - 1
    /\ UNCHANGED loader
    /\ Outcome(GetAll([cache |-> cache, uses |-> uses, err |-> Idle, value |-> Idle],
                      ReadAll(keys)),
               res)

\* A call of an analysis and its outcome.
Answer(op, args, keys, res) ==
    /\ Effects(op, args, keys, res)
    /\ UNCHANGED <<LOLALYTICS_DATA, champions>>

\* Reading a property of the roster or of a champion.
Property(owner, name, args) ==
    Answer(name, args, <<Key(owner, name)>>, LastRead)

\* The caller takes the outcome and goes on to its next call.
Continue ==
    /\ pc = "called"
    /\ pc' = "ready"
    /\ call' = NoCall
    /\ result' = Idle
    /\ UNCHANGED <<LOLALYTICS_DATA, champions, memo, loader>>

\* str.lower on the role arguments the model uses.
lower(r) == IF r = "MIDDLE" THEN "middle" ELSE r

\* Roster._champions[champion_id]: the role -> Champion dict of one id, as
\* _create_champions filled it.
champions_of(champion_id) ==
    LET es == ChampionEntries(LOLALYTICS_DATA, champion_id,
                              RoleKeys(LOLALYTICS_DATA, champion_id), <<>>)
    IN  [r \in {es[i].lane : i \in 1..Len(es)} |->
            (CHOOSE e \in Range(es) : e.lane = r).champion]

\* get_champion_by_id returning the dict of the id whatever the role.
get_champion_by_id_RoleIgnored(champion_id, r) ==
    IF champion_id \notin DOMAIN LOLALYTICS_DATA THEN RaisedKeyError(champion_id)
    ELSE Returned(champions_of(champion_id))

\* Roster.get_champion_by_id, lines 71-75.
get_champion_by_id(champion_id, r) ==
    IF champion_id \notin DOMAIN LOLALYTICS_DATA THEN RaisedKeyError(champion_id)
    ELSE IF r # NoRole
    THEN IF lower(r) \in DOMAIN champions_of(champion_id)
         THEN Returned(champions_of(champion_id)[lower(r)])
         ELSE RaisedKeyError(lower(r))
    ELSE Returned(champions_of(champion_id))

\* Ids and roles get_champion_by_id is asked for: every id of the snapshot
\* with no role, a lane, or a lane in capitals, and an id it does not hold.
IdLookups == ChampionIds \cup {0}
RoleLookups == {NoRole, "top", "middle", "MIDDLE"}

GetChampionById ==
    \E champion_id \in IdLookups, r \in RoleLookups :
        /\ champion_id \notin ChampionIds => r = NoRole
        /\ Answer("get_champion_by_id", <<champion_id, r>>, <<>>,
                  get_champion_by_id(champion_id, r))

GetValidChampions ==
    \E r \in RoleArgs, mra \in RoleAssignmentArgs, mpr \in PickRateArgs :
        Answer("get_valid_champions", <<r, mra, mpr>>, <<Key(RosterObject, "champions")>>,
               get_valid_champions_result(r, mra, mpr))

RawMatchupWinRates ==
    \E c \in ChampionSet : Property(c, "raw_matchup_win_rates", <<c>>)

NormalizedMatchupWinRates ==
    \E c \in ChampionSet : Property(c, "normalized_matchup_win_rates", <<c>>)

MatchupPickRates ==
    \E c \in ChampionSet : Property(c, "matchup_pick_rates", <<c>>)

MatchupNormalizedWinRate ==
    \E c \in ChampionSet : Property(c, "matchup_normalized_win_rate", <<c>>)

RankNormalizedWinRate ==
    \E c \in ChampionSet : Property(c, "rank_normalized_win_rate", <<c>>)

ExpectedMatchupWinRates ==
    \E c \in ChampionSet : Property(c, "expected_matchup_win_rates", <<c>>)

PickRateDelta ==
    \E c \in ChampionSet : Property(c, "pick_rate_delta", <<c>>)

\* Roster.pick_rates, raw_win_rates, rank_normalized_win_rates and
\* matchup_normalized_win_rates.
RosterSeriesNames ==
    {"pick_rates", "raw_win_rates", "rank_normalized_win_rates",
     "matchup_normalized_win_rates"}

RosterSeries ==
    \E name \in RosterSeriesNames : Property(RosterObject, name, <<>>)

\* The properties a method reads that starts with get_valid_champions(role)
\* and, if rest holds, goes on to read the raw match-up win rates of c.
ValidThenRaw(c, rest) ==
    <<Key(RosterObject, "champions")>> \o
    (IF /\ IsReturned(AfterValidChampions(role(c), None))
        /\ rest
     THEN <<Key(c, "raw_matchup_win_rates")>>
     ELSE <<>>)

\* The sort key of lines 159-162 reads raw_matchup_win_rates once there is a
\* valid champion to sort.
BlindKeys(c) == ValidThenRaw(c, DefaultValid(role(c)) # <<>>)

\* blind_expected_win_rate removing from Roster.champions itself.
BlindExpectedWinRate_InPlace ==
    \E c \in ChampionSet, k \in 0..MaxOpponentChampions, ig \in ChampionSet \cup {None} :
        /\ Effects("blind_expected_win_rate", <<c, k, ig>>, BlindKeys(c),
                   AfterValidChampions(role(c), blind_expected_win_rate(c, k, ig)))
        /\ champions' = Remove(champions, c)
        /\ UNCHANGED LOLALYTICS_DATA

BlindExpectedWinRate ==
    \E c \in ChampionSet, k \in 0..MaxOpponentChampions, ig \in ChampionSet \cup {None} :
        Answer("blind_expected_win_rate", <<c, k, ig>>, BlindKeys(c),
               AfterValidChampions(role(c), blind_expected_win_rate(c, k, ig)))

BestBlindBan ==
    \E c \in ChampionSet, k \in 0..MaxOpponentChampions :
        Answer("best_blind_ban", <<c, k>>, ValidThenRaw(c, ban_candidates(c) # <<>>),
               AfterValidChampions(role(c), best_blind_ban(c, k)))

\* Lines 196-210: the valid champions, then the normalized match-up win
\* rates of the counterpick pool of the first opponent; no call gets past
\* the first row.
AnalyzeKeys(champion_pool) ==
    IF champion_pool = <<>> \/ ~SameRole(champion_pool, role(champion_pool[1])) THEN <<>>
    ELSE <<Key(RosterObject, "champions")>> \o
         (IF /\ IsReturned(AfterValidChampions(role(champion_pool[1]), None))
             /\ DefaultValid(role(champion_pool[1])) # <<>>
          THEN LET counterpick_pool ==
                       SelectSeq(champion_pool,
                                 LAMBDA c : c # DefaultValid(role(champion_pool[1]))[1])
               IN  [i \in 1..Len(counterpick_pool) |->
                       Key(counterpick_pool[i], "normalized_matchup_win_rates")]
          ELSE <<>>)

AnalyzeChampionPool ==
    \E pool \in SeqsUpTo(ChampionSet, MaxPoolLen) :
        Answer("analyze_champion_pool", <<pool>>, AnalyzeKeys(pool),
               analyze_champion_pool(pool))

Next ==
    \/ FormatLolalyticsData
    \/ RosterInit
    \/ GetChampionById
    \/ GetValidChampions
    \/ RawMatchupWinRates
    \/ NormalizedMatchupWinRates
    \/ MatchupPickRates
    \/ MatchupNormalizedWinRate
    \/ RankNormalizedWinRate
    \/ ExpectedMatchupWinRates
    \/ PickRateDelta
    \/ RosterSeries
    \/ BlindExpectedWinRate
    \/ BestBlindBan
    \/ AnalyzeChampionPool
    \/ Continue

Spec == Init /\ [][Next]_vars

\* A script of MaxCalls calls on the roster of one snapshot of valid
\* champions with every match-up recorded.
CachedSnapshots ==
    {Snapshot(L, [b \in ChampionIds |-> [pr |-> 50, la |-> 100]], M, size) :
        L \in LaneChoices, size \in SampleSizes,
        M \in {X \in MatchupChoices : \A p \in FreePairs : X[p] = <<4, 1>>}}

InitCached ==
    /\ LOLALYTICS_DATA \in CachedSnapshots
    /\ pc = "raw"
    /\ champions = <<>>
    /\ call = NoCall
    /\ result = Idle
    /\ cache = Empty
    /\ uses = Empty
    /\ calls_left = MaxCalls
    /\ loader = NoLoader

SpecCached == InitCached /\ [][Next]_vars

\* The same program on a snapshot with a missing key.
InitMalformed ==
    /\ LOLALYTICS_DATA \in MalformedSnapshots
    /\ pc = "raw"
    /\ champions = <<>>
    /\ call = NoCall
    /\ result = Idle
    /\ cache = Empty
    /\ uses = Empty
    /\ calls_left = 1
    /\ loader = NoLoader

SpecMalformed == InitMalformed /\ [][Next]_vars

(***************************************************************************)
(* The two conversions on their own.                                       *)
(***************************************************************************)
\* Win rates from -1 to 2 in steps of 1/WinRateSteps, one half and NaN.
WinRates ==
    {Frac(i, WinRateSteps) : i \in -WinRateSteps..(2 * WinRateSteps)} \cup {Frac(1, 2), NaN}

InitElo ==
    /\ LOLALYTICS_DATA = EmptySnapshot
    /\ pc = "elo"
    /\ champions = <<>>
    /\ call = NoCall
    /\ result = Idle
    /\ cache = Empty
    /\ uses = Empty
    /\ calls_left = 0
    /\ loader = NoLoader

WinRateToElo ==
    /\ pc = "elo"
    /\ \E win_rate \in WinRates :
           /\ call' = [op |-> "win_rate_to_elo", args |-> <<win_rate>>]
           /\ result' = Returned(win_rate_to_elo(win_rate))
    /\ pc' = "rated"
    /\ UNCHANGED <<LOLALYTICS_DATA, champions, memo, loader>>

\* The rating just computed is converted back.
EloToWinRate ==
    /\ pc = "rated"
    /\ call' = [op |-> "elo_to_win_rate", args |-> <<result.value>>]
    /\ result' = Returned(elo_to_win_rate(result.value))
    /\ pc' = "converted"
    /\ UNCHANGED <<LOLALYTICS_DATA, champions, memo, loader>>

NextElo == WinRateToElo \/ EloToWinRate

SpecElo == InitElo /\ [][NextElo]_vars

(***************************************************************************)
(* The loader, update_lolalytics_champion_data.  A patch name is the       *)
(* sequence of its characters; a cache file is named by its patch and has  *)
(* an age; the run goes through lines 76-152 one loop iteration at a time. *)
(***************************************************************************)
Digits == {"0", "1", "2", "3", "4", "5", "6", "7", "8", "9"}

FixedDurationPatches == {<<"7">>, <<"1", "4">>, <<"3", "0">>}

LatestWord == <<"l", "a", "t", "e", "s", "t">>

RECURSIVE split(_, _, _)
\* str.split(sep): the pieces of s between the separators; piece is the one
\* being read.
split(s, sep, piece) ==
    IF s = <<>> THEN <<piece>>
    ELSE IF Head(s) = sep THEN <<piece>> \o split(Tail(s), sep, <<>>)
    ELSE split(Tail(s), sep, Append(piece, Head(s)))

RECURSIVE join(_, _)
join(parts, sep) ==
    IF parts = <<>> THEN <<>>
    ELSE IF Len(parts) = 1 THEN parts[1]
    ELSE parts[1] \o <<sep>> \o join(Tail(parts), sep)

\* ".".join(latest_patch.split(".")[:-1])
major_minor(latest_patch) ==
    LET parts == split(latest_patch, ".", <<>>)
    IN  join(SubSeq(parts, 1, Len(parts) - 1), ".")

\* Line 77
reformat_default(patch, latest_patch) ==
    IF patch # LatestWord THEN patch ELSE major_minor(latest_patch)

\* re.match("\d+\.\d+", patch): digits, a dot and a digit at the start of
\* patch; what follows is not looked at.
re_match(patch) ==
    \E i \in 1..Len(patch) :
        /\ \A k \in 1..i : patch[k] \in Digits
        /\ i + 2 <= Len(patch)
        /\ patch[i + 1] = "."
        /\ patch[i + 2] \in Digits

\* str.startswith
startswith(s, prefix) ==
    Len(prefix) <= Len(s) /\ SubSeq(s, 1, Len(prefix)) = prefix

RECURSIVE validate(_, _)
\* Lines 80-85, from entry i on.
validate(patches, i) ==
    IF i > Len(patches) THEN Returned(None)
    ELSE IF patches[i] \in FixedDurationPatches
    THEN IF Len(patches) > 1 THEN Raised("ValueError") ELSE validate(patches, i + 1)
    ELSE IF ~re_match(patches[i]) THEN Raised("ValueError")
    ELSE validate(patches, i + 1)

\* File ages are counted in half days: a file of age OneDay was written
\* exactly one day ago.
OneDay == 2
FileAges == {1, 2}

\* Lines 94-102: whether patch is downloaded.
update(patch, latest_patch, use_cache, files) ==
    ~ /\ patch \in DOMAIN files
      /\ use_cache
      /\ IF patch \in FixedDurationPatches \/ startswith(latest_patch, patch)
         THEN files[patch].age < OneDay
         ELSE TRUE

\* itertools.product(patches_to_update, champion_ids.items(), roles)
product(patches_to_update, champion_ids) ==
    [k \in 1..(Len(patches_to_update) * Len(champion_ids) * Len(Roles)) |->
        [patch |-> patches_to_update[((k - 1) \div (Len(champion_ids) * Len(Roles))) + 1],
         champion_id |-> champion_ids[(((k - 1) \div Len(Roles)) % Len(champion_ids)) + 1],
         role |-> Roles[((k - 1) % Len(Roles)) + 1]]]

\* What requests.get answers: the status code and whether the body parses.
Responses ==
    {[status_code |-> 200, json |-> TRUE], [status_code |-> 200, json |-> FALSE],
     [status_code |-> 500, json |-> TRUE]}

\* Lines 137-139: json.loads first, then the assert.
received(page) ==
    IF ~page.json THEN Raised("JSONDecodeError")
    ELSE IF page.status_code # 200 THEN Raised("AssertionError")
    ELSE Returned(None)

\* The file of patch as json.dump leaves it.
dumped(l, patch) ==
    [l EXCEPT !.files = Put(@, patch, [age |-> 0, saved |-> TRUE]),
              !.written = Append(@, patch)]

\* The loader saving the file of a patch as soon as a download of it
\* arrived.
after_request_SaveEach(l, patch) == dumped(l, patch)

\* What a download of the loop of lines 126-140 leaves on disk: nothing,
\* the files are written after the loop.
after_request(l, patch) == l

LoaderAt(where) == loader.pc = where

Idles == UNCHANGED <<LOLALYTICS_DATA, pc, champions, call, result, memo>>

\* Lines 76-87
Validate ==
    /\ LoaderAt("start")
    /\ loader' = [loader EXCEPT
           !.patches = [i \in 1..Len(@) |-> reformat_default(@[i], loader.latest_patch)],
           !.err = validate([i \in 1..Len(loader.patches) |->
                                reformat_default(loader.patches[i], loader.latest_patch)], 1),
           !.pc = IF IsRaised(validate([i \in 1..Len(loader.patches) |->
                                reformat_default(loader.patches[i], loader.latest_patch)], 1))
                  THEN "raised" ELSE "identify"]
    /\ Idles

\* Where the run goes after the loop of lines 91-108.
AfterIdentify(l) ==
    IF l.i <= Len(l.patches) THEN l
    ELSE [l EXCEPT !.i = 1,
                   !.pc = IF Len(l.patches_to_update) > 0 THEN "download" ELSE "format"]

\* Lines 91-108, one patch; an identify step with no patch left is the
\* end of the loop.
Identify ==
    /\ LoaderAt("identify")
    /\ loader' =
           IF loader.i > Len(loader.patches) THEN AfterIdentify(loader)
           ELSE IF update(loader.patches[loader.i], loader.latest_patch,
                          loader.use_cache, loader.files)
           THEN AfterIdentify([loader EXCEPT
                    !.patches_to_update = Append(@, loader.patches[loader.i]),
                    !.i = @ + 1])
           ELSE AfterIdentify([loader EXCEPT
                    !.loaded = Append(@, loader.patches[loader.i]),
                    !.i = @ + 1])
    /\ Idles

\* Lines 111-125: max() of no champion name raises ValueError.
BeginDownload ==
    /\ LoaderAt("download")
    /\ loader' = IF loader.champion_ids = <<>>
                 THEN [loader EXCEPT !.pc = "raised", !.err = Raised("ValueError")]
                 ELSE [loader EXCEPT !.pc = "get", !.i = 1]
    /\ Idles

\* The downloads to make.
Todo == product(loader.patches_to_update, loader.champion_ids)

\* Lines 126-140, one request.
Get ==
    /\ LoaderAt("get")
    /\ \E page \in Responses :
           loader' =
               IF IsRaised(received(page))
               THEN [loader EXCEPT !.requests = Append(@, Todo[loader.i]),
                                   !.pc = "raised", !.err = received(page)]
               ELSE after_request(
                        [loader EXCEPT !.requests = Append(@, Todo[loader.i]),
                                       !.i = IF @ = Len(Todo) THEN 1 ELSE @ + 1,
                                       !.pc = IF loader.i = Len(Todo) THEN "save" ELSE "get"],
                        Todo[loader.i].patch)
    /\ Idles

\* Lines 144-147, one file.
Save ==
    /\ LoaderAt("save")
    /\ loader' = [dumped(loader, loader.patches_to_update[loader.i]) EXCEPT
                     !.i = @ + 1,
                     !.pc = IF loader.i = Len(loader.patches_to_update)
                            THEN "format" ELSE "save"]
    /\ Idles

\* Lines 149-152: the data read and downloaded is formatted and returned.
FormatAndReturn ==
    /\ LoaderAt("format")
    /\ loader' = [loader EXCEPT !.pc = "returned"]
    /\ Idles

NextLoader ==
    \/ Validate
    \/ Identify
    \/ BeginDownload
    \/ Get
    \/ Save
    \/ FormatAndReturn

\* The patch lists asked for: the latest patch by name, a fixed-duration
\* patch, an older patch, the patch before the latest, and two names that
\* are no patch.
LatestPatch == <<"1", "2", ".", "1", "0", ".", "1">>
PatchArgs ==
    {LatestWord, <<"7">>, <<"1", "2", ".", "1">>, <<"1", "2", ".", "9">>,
     <<"1", "2", ".", "9", "x">>, <<"x">>}

\* The cache directory: any of the files of the patches asked for, each of
\* some age.
CacheDirs(patches) ==
    UNION {[T -> [age : FileAges, saved : {FALSE}]] :
              T \in SUBSET {reformat_default(patches[i], LatestPatch) :
                                i \in 1..Len(patches)}}

InitLoader ==
    /\ LOLALYTICS_DATA = EmptySnapshot
    /\ pc = "loader"
    /\ champions = <<>>
    /\ call = NoCall
    /\ result = Idle
    /\ cache = Empty
    /\ uses = Empty
    /\ calls_left = 0
    /\ \E patches \in SeqsUpTo(PatchArgs, MaxPatches) :
           loader \in [pc : {"start"},
                       champion_ids : {<<>>, <<1>>},
                       latest_patch : {LatestPatch},
                       patches : {patches},
                       use_cache : BOOLEAN,
                       files : CacheDirs(patches),
                       patches_to_update : {<<>>},
                       loaded : {<<>>},
                       requests : {<<>>},
                       written : {<<>>},
                       i : {1},
                       err : {Idle}]

SpecLoader == InitLoader /\ [][NextLoader]_vars

(***************************************************************************)
(* format_lolalytics_data on the raw data of several patches.  The raw     *)
(* data is the sequence of its patches in insertion order, each with the   *)
(* champion_id -> role -> blob data of the patch.                          *)
(***************************************************************************)
RECURSIVE ExpandPatches(_, _)
\* Lines 157-170: the match-up lists of every blob of every patch are
\* rewritten into dicts, patch after patch.
ExpandPatches(raw, k) ==
    IF k > Len(raw) THEN [data |-> raw, err |-> "none"]
    ELSE IF format_lolalytics_data(raw[k].data).err # "none"
    THEN [format_lolalytics_data(raw[k].data) EXCEPT
              !.data = [raw EXCEPT ![k].data = format_lolalytics_data(raw[k].data).data]]
    ELSE ExpandPatches([raw EXCEPT ![k].data = format_lolalytics_data(raw[k].data).data],
                       k + 1)

\* lolalytics_data[champion_id][champion_role]: the blobs of one champion
\* and role, in the order of the patches that hold one.
PatchBlobs(raw, champion_id, champion_role) ==
    LET holds(k) == /\ champion_id \in DOMAIN raw[k].data
                    /\ champion_role \in DOMAIN raw[k].data[champion_id]
        ks == SelectSeq([k \in 1..Len(raw) |-> k], holds)
    IN  [j \in 1..Len(ks) |-> raw[ks[j]].data[champion_id][champion_role]]

RECURSIVE SumOver(_, _)
\* sum(term(patch_data) for patch_data in blobs), term given as the sequence
\* of its values.
SumOver(terms, k) == IF k > Len(terms) THEN 0 ELSE terms[k] + SumOver(terms, k + 1)

\* patch_data.get(key, 0) on the top level of a blob
get(patch_data, key) == IF key \in DOMAIN patch_data THEN patch_data[key] ELSE 0

\* patch_data.get("nav", {}).get("lanes", {}).get(role, 0)
get_lane(patch_data, r) ==
    IF "nav" \notin DOMAIN patch_data THEN 0
    ELSE IF "lanes" \notin DOMAIN patch_data.nav THEN 0
    ELSE IF r \notin DOMAIN patch_data.nav.lanes THEN 0
    ELSE patch_data.nav.lanes[r]

\* Lines 206-226: the opponents of role r recorded in some patch, each with
\* the sums of its matches and of its wins.
summed(blobs, r) ==
    LET has(k) == r \in DOMAIN blobs[k].enemy
        recorded(k, o) == has(k) /\ o \in DOMAIN blobs[k].enemy[r].v
        opponents == UNION {DOMAIN blobs[k].enemy[r].v : k \in {j \in 1..Len(blobs) : has(j)}}
    IN  [o \in opponents |->
            [matches |-> SumOver([k \in 1..Len(blobs) |->
                                    IF recorded(k, o) THEN blobs[k].enemy[r].v[o].matches ELSE 0], 1),
             wins |-> SumOver([k \in 1..Len(blobs) |->
                                    IF recorded(k, o) THEN blobs[k].enemy[r].v[o].wins ELSE 0], 1)]]

\* The roles that have an enemy_<role> field in the record built by lines
\* 198-226: those with a match-up in some patch.
summed_roles(blobs) == {r \in RoleSet : DOMAIN summed(blobs, r) # {}}

\* Lines 178-232 for the blobs of one champion and role found in more than
\* one patch.
merged(blobs) ==
    LET total_n == SumOver([k \in 1..Len(blobs) |-> get(blobs[k], "n")], 1)
        total_analyzed == SumOver([k \in 1..Len(blobs) |-> get(blobs[k], "analysed")], 1)
    IN  IF total_analyzed = 0 \/ total_n = 0 THEN Raised("ZeroDivisionError")
        ELSE IF summed_roles(blobs) # RoleSet
        THEN RaisedKeyError("enemy_" \o
                 Roles[CHOOSE i \in 1..Len(Roles) :
                          /\ Roles[i] \notin summed_roles(blobs)
                          /\ \A j \in 1..(i - 1) : Roles[j] \in summed_roles(blobs)])
        ELSE IF \E r \in RoleSet : \E o \in DOMAIN summed(blobs, r) :
                    summed(blobs, r)[o].matches = 0
        THEN Raised("ZeroDivisionError")
        ELSE Returned(
            [n |-> total_n,
             analysed |-> total_analyzed,
             pr |-> Frac(10 * 100 * total_n, total_analyzed),
             avgWinRate |->
                 Frac(SumOver([k \in 1..Len(blobs) |->
                                  get(blobs[k], "avgWinRate") * get(blobs[k], "n")], 1),
                      total_n),
             nav |-> [lanes |->
                 [r \in RoleSet |->
                     Frac(SumOver([k \in 1..Len(blobs) |->
                                      get(blobs[k], "n") * get_lane(blobs[k], r)], 1),
                          total_n)]],
             enemy |->
                 [r \in RoleSet |->
                     [isdict |-> TRUE,
                      v |-> [o \in DOMAIN summed(blobs, r) |->
                                [matches |-> summed(blobs, r)[o].matches,
                                 wins |-> summed(blobs, r)[o].wins,
                                 win_rate |-> Frac(summed(blobs, r)[o].wins,
                                                   summed(blobs, r)[o].matches)]]]]])

\* Lines 178-235 for one champion and role.
merged_or_single(blobs) ==
    IF Len(blobs) > 1 THEN merged(blobs) ELSE Returned(blobs[1])

\* The (champion_id, role) pairs of the raw data in the order lines 157-170
\* meet them.
RawKeys(raw) ==
    SelectSeq(AllBlobKeys([a \in ChampionIds |-> [r \in RoleSet |-> 0]]),
              LAMBDA key : PatchBlobs(raw, key.id, key.key) # <<>>)

\* Lines 172-237 on the expanded patches: the first exception, or the
\* champion_id -> role -> blob data.
new_lolalytics_data(raw) ==
    LET keys == RawKeys(raw)
        failed == {i \in 1..Len(keys) :
                      IsRaised(merged_or_single(PatchBlobs(raw, keys[i].id, keys[i].key)))}
    IN  IF failed # {}
        THEN merged_or_single(PatchBlobs(raw, keys[CHOOSE i \in failed :
                                                       \A j \in failed : i <= j].id,
                                         keys[CHOOSE i \in failed :
                                                       \A j \in failed : i <= j].key))
        ELSE Returned(
            [a \in {keys[i].id : i \in 1..Len(keys)} |->
                [r \in {keys[i].key : i \in {j \in 1..Len(keys) : keys[j].id = a}} |->
                    merged_or_single(PatchBlobs(raw, a, r)).value]])

\* format_lolalytics_data, lines 155-237, on raw data of any number of
\* patches.
format_raw_lolalytics_data(raw) ==
    IF ExpandPatches(raw, 1).err # "none" THEN RaisedBy(ExpandPatches(raw, 1))
    ELSE new_lolalytics_data(ExpandPatches(raw, 1).data)

\* The raw blob of champion 1 in the middle lane in one patch: its sample
\* size and rates, the match-ups against champions 2 and 3 in the middle
\* lane, one match-up or none in the top lane, one in each other lane.
MergeCounts == {NoEntry, <<4, 1>>, <<2, 2>>}

RawEnemy(r, mid2, mid3, top2) ==
    IF r = "middle"
    THEN (IF mid2 = NoEntry THEN <<>> ELSE <<<<2, mid2[1], mid2[2], 0>>>>) \o
         (IF mid3 = NoEntry THEN <<>> ELSE <<<<3, mid3[1], mid3[2], 0>>>>)
    ELSE IF r = "top"
    THEN IF top2 = NoEntry THEN <<>> ELSE <<<<2, top2[1], top2[2], 0>>>>
    ELSE <<<<2, 4, 1, 0>>>>

RawBlob(size, mid2, mid3, top2) ==
    [header |-> [lane |-> "middle", n |-> size, pr |-> 5, wr |-> 52],
     n |-> size,
     analysed |-> 100 * size,
     avgWinRate |-> 51,
     nav |-> [lanes |-> [r \in RoleSet |-> IF r = "middle" THEN 100 ELSE 0]],
     enemy |-> [r \in RoleSet |->
                   [isdict |-> FALSE, v |-> RawEnemy(r, mid2, mid3, top2)]]]

\* The data of one patch: nothing, or champion 1 in the middle lane.
PatchData ==
    {EmptySnapshot} \cup
    {[a \in {1} |-> [r \in {"middle"} |-> RawBlob(size, mid2, mid3, top2)]] :
        size \in {8, 24}, mid2 \in MergeCounts, mid3 \in MergeCounts,
        top2 \in {NoEntry, <<4, 1>>}}

\* The raw data of two patches.
PatchNames == <<"12.9", "12.10">>

RawData ==
    {[k \in 1..Len(PatchNames) |-> [patch |-> PatchNames[k], data |-> d[k]]] :
        d \in [1..Len(PatchNames) -> PatchData]}

InitMerge ==
    /\ LOLALYTICS_DATA = EmptySnapshot
    /\ pc = "loaded"
    /\ champions = <<>>
    /\ \E raw \in RawData : call = [op |-> "format_lolalytics_data", args |-> <<raw>>]
    /\ result = Idle
    /\ cache = Empty
    /\ uses = Empty
    /\ calls_left = 0
    /\ loader = NoLoader

\* lolalytics_data = format_lolalytics_data(raw_lolalytics_data)
FormatRawData ==
    /\ pc = "loaded"
    /\ result' = format_raw_lolalytics_data(call.args[1])
    /\ LOLALYTICS_DATA' = IF IsRaised(format_raw_lolalytics_data(call.args[1]))
                          THEN LOLALYTICS_DATA
                          ELSE format_raw_lolalytics_data(call.args[1]).value
    /\ pc' = IF IsRaised(format_raw_lolalytics_data(call.args[1]))
             THEN "raised" ELSE "formatted"
    /\ UNCHANGED <<champions, call, memo, loader>>

NextMerge == FormatRawData \/ RosterInit

SpecMerge == InitMerge /\ [][NextMerge]_vars

(***************************************************************************)
(* Properties.                                                             *)
(***************************************************************************)
Called(op) == pc = "called" /\ call.op = op

\* C1: analyze_champion_pool on a pool of exactly one champion completes
\* without raising, and every row of the per-opponent table has no second
\* counterpick candidate (second-best counterpick and the counterpick win-rate
\* improvement are absent).
C1_SinglePoolCompletes ==
    (Called("analyze_champion_pool") /\ Len(call.args[1]) = 1) =>
        /\ IsReturned(result)
        /\ \A i \in 1..Len(result.value.matchups_df) :
               Len(result.value.matchups_df[i].counterpick_pool) <= 1

MixedRoles(pool) ==
    \E i, j \in 1..Len(pool) : role(pool[i]) # role(pool[j])

\* C2: analyze_champion_pool on a pool whose champions do not all share one
\* role ends in an AssertionError and produces no table, wherever in the pool
\* the champion of the other role stands.
C2_MixedPoolAsserts ==
    (Called("analyze_champion_pool") /\ MixedRoles(call.args[1])) =>
        result = Raised("AssertionError")

\* C2 witness: a mixed pool whose first champion is followed by one of
\* another role was analysed and the assertion failed.
C2_Witness ==
    /\ Called("analyze_champion_pool")
    /\ Len(call.args[1]) >= 2
    /\ role(call.args[1][Len(call.args[1])]) # role(call.args[1][1])
    /\ result = Raised("AssertionError")

\* C3: with an empty snapshot, or with no valid champion of the requested
\* role, Roster construction, matchup_normalized_win_rate and
\* analyze_champion_pool each end in the explicit no-data failure (the
\* ValueError of Roster.__init__), never in another exception or a value.
C3_NoDataSignal ==
    /\ (call.op = "Roster" /\ DOMAIN LOLALYTICS_DATA = {}) =>
           result = Raised("ValueError")
    /\ (Called("analyze_champion_pool") /\ call.args[1] # <<>>
            /\ ~MixedRoles(call.args[1])
            /\ DefaultValid(role(call.args[1][1])) = <<>>) =>
           result = Raised("ValueError")
    /\ (Called("matchup_normalized_win_rate")
            /\ DefaultValid(role(call.args[1])) = <<>>) =>
           result = Raised("ValueError")

Blobs == UNION {{LOLALYTICS_DATA[a][k] : k \in DOMAIN LOLALYTICS_DATA[a]} :
                a \in DOMAIN LOLALYTICS_DATA}

\* The records of every expanded enemy_<role> mapping of the snapshot.
ExpandedRecords ==
    UNION {UNION {{b.enemy[r].v[o] : o \in DOMAIN b.enemy[r].v} :
                  r \in {q \in RoleSet : b.enemy[q].isdict}} : b \in Blobs}

HasRawTuples == \E b \in Blobs : \E r \in RoleSet : ~b.enemy[r].isdict

\* C4: both normalisation steps (Champion construction and the loader's
\* format step) turn every raw tuple into a record with win_rate =
\* wins/matches when matches > 0 and NaN when matches = 0, and raise nothing.
C4_WinRateOrNaN ==
    (call.op \in {"Roster", "format_lolalytics_data"} /\ DOMAIN LOLALYTICS_DATA # {}) =>
        /\ IsReturned(result)
        /\ ~HasRawTuples
        /\ \A rec \in ExpandedRecords :
               rec.win_rate = IF rec.matches > 0 THEN Frac(rec.wins, rec.matches) ELSE NaN

\* Whether the data of champion c holds an entry for (o.id, o.role).
HasEntry(c, o) ==
    o.id \in DOMAIN LOLALYTICS_DATA[c.id][c.key].enemy[LOLALYTICS_DATA[o.id][o.key].header.lane].v

EntryOf(c, o) ==
    LOLALYTICS_DATA[c.id][c.key].enemy[LOLALYTICS_DATA[o.id][o.key].header.lane].v[o.id]

BlindOverPresent(c, k, ig) ==
    BlindLoop(c,
              SelectSeq(opponent_champions(c, ig),
                        LAMBDA o : ~IsNaN(get_raw_matchup_win_rate_by_champion(c, o))),
              1, k, One, Zero)

\* C6: a missing match-up is filtered out before aggregation: in
\* matchup_normalized_win_rate an opponent without a match-up value adds
\* nothing to the weighted numerator and nothing to the pick-rate
\* denominator, and in blind_expected_win_rate an eligible opponent without
\* a match-up value does not change the result.
C6_MissingFilteredOut ==
    /\ Called("matchup_normalized_win_rate") =>
           LET c == call.args[1]
               nwr == [i \in 1..Len(champions) |->
                          get_normalized_matchup_by_champion(c, champions[i])]
           IN  result.value =
                   RDiv(SumSkipNa([i \in 1..Len(champions) |->
                                      RMul(nwr[i], pick_rate(champions[i]))]),
                        SumSkipNa([i \in 1..Len(champions) |->
                                      IF IsNaN(nwr[i]) THEN NaN
                                      ELSE pick_rate(champions[i])]))
    /\ Called("blind_expected_win_rate") =>
           result.value = BlindOverPresent(call.args[1], call.args[2], call.args[3])

\* The recorded win rates of the model's match-up counts.
RecordedWinRates == {Frac(cnt[2], cnt[1]) : cnt \in {x \in Counts : x[1] > 0}}

\* C7 as stated: symmetry is not guaranteed, that is, for two champions A
\* and B of a roster there are recorded win rates a = A_vs_B and b = B_vs_A
\* with which the normalized values (a + (1 - b))/2 and (b + (1 - a))/2 do
\* not sum to 1.
C7_NotGuaranteed ==
    pc = "ready" =>
        \E A \in ChampionSet, B \in ChampionSet :
            /\ A # B
            /\ \E a \in RecordedWinRates, b \in RecordedWinRates :
                   RAdd(NormalizedAverage(a, b), NormalizedAverage(b, a)) # One

\* C7 amended: whenever both directional records exist, the normalized
\* match-up win rates of A against B and of B against A sum to exactly 1.
C7_SumsToOne ==
    Called("normalized_matchup_win_rates") =>
        \A i \in 1..Len(champions) :
            (HasEntry(call.args[1], champions[i]) /\ HasEntry(champions[i], call.args[1])) =>
                RAdd(result.value[i],
                     get_normalized_matchup_by_champion(champions[i], call.args[1])) = One

\* C7 witness: the normalized series was computed for a pair whose two raw
\* records both exist and are not complementary.
C7_Witness ==
    /\ Called("normalized_matchup_win_rates")
    /\ \E i \in 1..Len(champions) :
           /\ HasEntry(call.args[1], champions[i])
           /\ HasEntry(champions[i], call.args[1])
           /\ RAdd(EntryOf(call.args[1], champions[i]).win_rate,
                   EntryOf(champions[i], call.args[1]).win_rate) # One
           /\ result.value[i] # NaN

\* pr/100 >= t and nav.lanes[lane]/100 >= t on the raw percentages.
PercentAtLeast(percent, t) == percent * t[2] >= 100 * t[1]

Passes(c, r, mra, mpr) ==
    LET b == LOLALYTICS_DATA[c.id][c.key]
    IN  /\ PercentAtLeast(b.header.pr, mpr)
        /\ PercentAtLeast(b.nav.lanes[b.header.lane], mra)
        /\ (r = NoRole \/ b.header.lane = r)

\* C8: get_valid_champions(role, min_role_assignment, min_pick_rate) returns
\* exactly the champions with pick_rate >= min_pick_rate, role_assignment >=
\* min_role_assignment and the requested role (any role when None), each
\* once; a stricter filter returns a subset.
C8_ValidFilter ==
    Called("get_valid_champions") =>
        LET r == call.args[1]
            mra == call.args[2]
            mpr == call.args[3]
        IN  /\ Range(result.value) = {c \in ChampionSet : Passes(c, r, mra, mpr)}
            /\ Len(result.value) = Cardinality(Range(result.value))
            /\ \A r2 \in RoleArgs, mra2 \in RoleAssignmentArgs, mpr2 \in PickRateArgs :
                   (/\ RGe(mra2, mra) /\ RGe(mpr2, mpr)
                    /\ (r2 = r \/ r = NoRole)) =>
                       Range(get_valid_champions(r2, mra2, mpr2)) \subseteq Range(result.value)

\* C8 witness: a filter with a role and both default thresholds kept one
\* champion and dropped another of the same role.
C8_Witness ==
    /\ Called("get_valid_champions")
    /\ call.args = <<"middle", min_champion_role_assignemnt_rate, min_champion_pick_rate>>
    /\ result.value # <<>>
    /\ \E c \in ChampionSet : role(c) = "middle" /\ c \notin Range(result.value)

\* C9: blind_expected_win_rate with pool size 0 returns 0 whatever the
\* opponents' pick rates and match-up win rates are, absent ones included.
C9_PoolSizeZeroIsZero ==
    (Called("blind_expected_win_rate") /\ call.args[2] = 0) => result.value = Zero

\* The opponents the claim lets contribute: valid, of the caller's role,
\* neither the caller nor the ignored champion.
Eligible(c, ig) == {o \in Range(DefaultValid(role(c))) : o # c /\ o # ig}

Perms(S) == {q \in [1..Cardinality(S) -> S] : \A x \in S : \E i \in DOMAIN q : q[i] = x}

Presence(o, k) == RSub(One, RPow(RSub(One, pick_rate(o)), k))

RECURSIVE Remaining(_, _, _)
\* The mass left before opponent number i: the product of (1 - presence).
Remaining(q, i, k) ==
    IF i = 1 THEN One
    ELSE RMul(Remaining(q, i - 1, k), RSub(One, Presence(q[i - 1], k)))

RECURSIVE AscendingSum(_, _, _, _)
AscendingSum(c, q, i, k) ==
    IF i > Len(q) THEN Zero
    ELSE RAdd(RMul(RMul(Presence(q[i], k), Remaining(q, i, k)),
                   get_raw_matchup_win_rate_by_champion(c, q[i])),
              AscendingSum(c, q, i + 1, k))

\* C10: blind_expected_win_rate(N, ignore) is the sum over the eligible
\* opponents, visited in ascending order of the caller's raw match-up win
\* rate, of presence * remaining * win_rate; the caller and the ignored
\* champion contribute nothing.
C10_AscendingOrderSum ==
    Called("blind_expected_win_rate") =>
        LET c == call.args[1]
            E == Eligible(c, call.args[3])
            w(o) == get_raw_matchup_win_rate_by_champion(c, o)
            asc == CHOOSE q \in Perms(E) :
                       \A i, j \in DOMAIN q : i < j => ~RLt(w(q[j]), w(q[i]))
        IN  result.value =
                IF \E o \in E : IsNaN(w(o)) THEN NaN
                ELSE AscendingSum(c, asc, 1, call.args[2])

\* C11: best_blind_ban(N) of a champion returns an opponent o* of the
\* champion's role, valid and other than the champion, together with
\* blind_expected_win_rate(N, ignore = o*), and no other candidate has a
\* greater value; the returned opponent is never the caller and, when at
\* least one candidate exists, never None.
C11_BestBanIsMaximum ==
    Called("best_blind_ban") =>
        LET c == call.args[1]
            k == call.args[2]
            cands == ban_candidates(c)
            best_ban == result.value.best_ban
            value == result.value.best_ban_blind_expected_win_rate
        IN  /\ best_ban # c
            /\ cands # <<>> =>
                   /\ best_ban \in Range(cands)
                   /\ value = blind_expected_win_rate(c, k, best_ban)
                   /\ \A i \in 1..Len(cands) :
                          RGe(value, blind_expected_win_rate(c, k, cands[i]))

\* The value the table ranks pool member m by against an opponent.
CounterpickValue(m, opponent) == get_normalized_matchup_by_champion(m, opponent)

\* C12: analyze_champion_pool on a pool of two different champions of one
\* role returns a table that has, for every valid opponent of that role, a
\* row whose best counterpick is a pool member other than the opponent with
\* the highest normalized match-up win rate against it and whose second-best
\* counterpick has the next highest; the best value is never below the
\* second-best, and a member without a value is never ranked above a member
\* with one.
C12_CounterpicksRanked ==
    (/\ Called("analyze_champion_pool")
     /\ Len(call.args[1]) = 2
     /\ call.args[1][1] # call.args[1][2]
     /\ ~MixedRoles(call.args[1])
     /\ DefaultValid(role(call.args[1][1])) # <<>>) =>
        /\ IsReturned(result)
        /\ Len(result.value.matchups_df) = Len(DefaultValid(role(call.args[1][1])))
        /\ \A i \in 1..Len(result.value.matchups_df) :
               LET row == result.value.matchups_df[i]
                   best == row.best_counterpick
                   second == row.second_best_counterpick
                   members == Range(row.counterpick_pool)
               IN  /\ row.opponent = DefaultValid(role(call.args[1][1]))[i]
                   /\ best \in members
                   /\ best # row.opponent
                   /\ row.best_counterpick_win_rate = CounterpickValue(best, row.opponent)
                   /\ \A m \in members :
                          \/ IsNaN(CounterpickValue(m, row.opponent))
                          \/ RGe(row.best_counterpick_win_rate,
                                 CounterpickValue(m, row.opponent))
                   /\ Cardinality(members) > 1 =>
                          /\ second \in members \ {best}
                          /\ IsNaN(row.best_counterpick_win_rate) =>
                                 IsNaN(row.second_best_counterpick_win_rate)
                          /\ \/ IsNaN(row.second_best_counterpick_win_rate)
                             \/ RGe(row.best_counterpick_win_rate,
                                    row.second_best_counterpick_win_rate)

\* The blobs of a snapshot that lack an expected key.
BlobMalformed(blob) ==
    \/ "header" \notin DOMAIN blob
    \/ "lanes" \notin DOMAIN blob.nav
    \/ DOMAIN blob.enemy # RoleSet

Offending ==
    {k \in Range(AllBlobKeys(LOLALYTICS_DATA)) : BlobMalformed(LOLALYTICS_DATA[k.id][k.key])}

\* The exception names the champion and the role of blob k.
Identifies(exception, k) ==
    /\ "args" \in DOMAIN exception
    /\ ToString(k.id) \in Range(exception.args)
    /\ k.key \in Range(exception.args)

\* C13: constructing a Roster from a snapshot in which a blob lacks an
\* expected key (an enemy_<role> field, header, nav.lanes) fails during
\* construction, with an error that identifies the offending champion and
\* role; no Roster is returned.
C13_MalformedFailsFast ==
    (call.op = "Roster" /\ Offending # {}) =>
        /\ pc = "raised"
        /\ IsRaised(result)
        /\ \E k \in Offending : Identifies(result, k)

InsideUnitInterval(p) == RLt(Zero, p) /\ RLt(p, One)

\* C19: win_rate_to_elo returns -Inf for every input <= 0 and +Inf for every
\* input >= 1; for an input strictly between 0 and 1 it returns a finite
\* rating that is strictly smaller than the rating of every greater input
\* inside the interval and is 0 at 0.5.
C19_EloClampedMonotone ==
    (pc = "rated" /\ call.op = "win_rate_to_elo") =>
        LET p == call.args[1]
            elo == result.value
        IN  /\ RGe(Zero, p) => elo = EloNegInf
            /\ RGe(p, One) => elo = EloPosInf
            /\ InsideUnitInterval(p) =>
                   /\ EloIsFinite(elo)
                   /\ \A q \in WinRates :
                          (InsideUnitInterval(q) /\ RLt(p, q)) =>
                              EloLess(elo, win_rate_to_elo(q))
                   /\ p = Frac(1, 2) => elo = EloZero

\* A negative win rate has been converted and came out as -Inf.
C19_Witness ==
    /\ pc = "rated"
    /\ call.op = "win_rate_to_elo"
    /\ RLt(call.args[1], Zero)
    /\ result.value = EloNegInf

\* C20: for every p strictly between 0 and 1,
\* elo_to_win_rate(win_rate_to_elo(p)) = p.
C20_RoundTrip ==
    [][(/\ call.op = "win_rate_to_elo"
        /\ call'.op = "elo_to_win_rate"
        /\ InsideUnitInterval(call.args[1])) =>
           result'.value = call.args[1]]_vars

\* A finite rating other than 0 has been converted back to a win rate
\* strictly inside the interval.
C20_Witness ==
    /\ pc = "converted"
    /\ call.op = "elo_to_win_rate"
    /\ EloIsFinite(call.args[1])
    /\ call.args[1] # EloZero
    /\ InsideUnitInterval(result.value)

\* The mapping a raw sequence stands for: one record per tuple, made of its
\* first three elements.
IsExpansionOf(field, raw) ==
    /\ field.isdict
    /\ DOMAIN field.v = {raw[i][1] : i \in 1..Len(raw)}
    /\ \A i \in 1..Len(raw) :
           field.v[raw[i][1]] = [matches |-> raw[i][2], wins |-> raw[i][3],
                                 win_rate |-> Frac(raw[i][3], raw[i][2])]

NormalisationStep == {"format_lolalytics_data", "Roster"}

\* C17: either normalisation step (the loader's format_lolalytics_data, the
\* Champion's on construction of the Roster) turns each of the five raw
\* enemy_<role> sequences of every blob into the mapping of its tuples, and
\* applied to data that is already normalised it completes and changes
\* nothing.
C17_NormalisedOnceIdempotent ==
    [][(call'.op \in NormalisationStep /\ DOMAIN LOLALYTICS_DATA # {}) =>
          /\ IsReturned(result')
          /\ pc = "raw" =>
                 \A k \in Range(AllBlobKeys(LOLALYTICS_DATA)), r \in RoleSet :
                     IsExpansionOf(LOLALYTICS_DATA'[k.id][k.key].enemy[r],
                                   LOLALYTICS_DATA[k.id][k.key].enemy[r].v)
          /\ pc = "formatted" => LOLALYTICS_DATA' = LOLALYTICS_DATA]_vars

\* The positions in Roster.champions of the champions of the role of c.
OwnRole(c) ==
    SelectSeq([i \in 1..Len(champions) |-> i], LAMBDA i : role(champions[i]) = role(c))

\* The pick-rate-weighted average of the normalized match-up win rates of c
\* with both sums taken over the champions of the role of c only.
OwnRoleAverage(c) ==
    LET own == OwnRole(c)
        win_rates == [j \in 1..Len(own) |->
                         get_normalized_matchup_by_champion(c, champions[own[j]])]
        weights == [j \in 1..Len(own) |-> pick_rate(champions[own[j]])]
    IN  RDiv(SumSkipNa(SeriesMul(win_rates, weights)), SumSkipNa(weights))

\* C18: matchup_normalized_win_rate of a champion is the pick-rate-weighted
\* average of its normalized match-up win rates over the opponents of its own
\* role: numerator and denominator both range over that role only, so the
\* champions of other roles change neither.
C18_OwnRoleOnly ==
    Called("matchup_normalized_win_rate") =>
        result.value = OwnRoleAverage(call.args[1])

PickRatesKey == Key(RosterObject, "pick_rates")

\* C14: after construction no analysis changes the snapshot the profiles read
\* their pick rate, role assignment, raw win rate, sample size and match-up
\* records from, nor the stored Roster.pick_rates; after pick_rate_delta the
\* stored Roster.pick_rates is still the series of the champions' pick rates.
AnalysisStep ==
    pc \in {"ready", "called"} =>
        /\ LOLALYTICS_DATA' = LOLALYTICS_DATA
        /\ PickRatesKey \in DOMAIN cache =>
               /\ PickRatesKey \in DOMAIN cache'
               /\ cache'[PickRatesKey] = cache[PickRatesKey]
        /\ (call'.op = "pick_rate_delta" /\ IsReturned(result')) =>
               cache'[PickRatesKey] = pick_rates

C14_AnalysesReadOnly == [][AnalysisStep]_vars

\* pick_rate_delta has returned on a roster whose pick rates were stored by an
\* earlier call and are not all 0.
C14_Witness ==
    /\ pc = "called"
    /\ call.op = "pick_rate_delta"
    /\ IsReturned(result)
    /\ uses[PickRatesKey].reads >= 2
    /\ \E i \in 1..Len(champions) : RGt(cache[PickRatesKey][i], Zero)

\* C15: once the Roster is constructed, Roster.champions holds exactly one
\* profile per blob of the snapshot, each with its back-reference to the one
\* Roster, and no step changes it afterwards.
ProfilesStep ==
    pc' \in {"ready", "called"} =>
        /\ Len(champions') = Len(AllBlobKeys(LOLALYTICS_DATA'))
        /\ Range(champions') =
               {Champion(k.id, k.key, RosterObject) :
                   k \in Range(AllBlobKeys(LOLALYTICS_DATA'))}
        /\ Key(RosterObject, "champions") \in DOMAIN cache' =>
               cache'[Key(RosterObject, "champions")] = champions'
        /\ pc \in {"ready", "called"} => champions' = champions

C15_ProfilesFixed == [][ProfilesStep]_vars

\* Two calls have been made on a roster of three profiles.
C15_Witness ==
    /\ pc = "called"
    /\ calls_left = 0
    /\ Len(champions) = 3
    /\ Key(RosterObject, "champions") \in DOMAIN cache

\* C16: the body of each derived metric of a champion (rank-normalized win
\* rate, raw, normalized and expected match-up win rates, match-up pick
\* rates, pick-rate delta, matchup-normalized win rate) and of each aggregate
\* series of the Roster runs at most once per object.
C16_ComputedOnce ==
    \A k \in DOMAIN uses : uses[k].computed <= 1

\* The metrics of C16 other than the rank-normalized win rate.
MemoizedNames == DerivedNames \ {"rank_normalized_win_rate"}

Owner == IF call.args = <<>> THEN RosterObject ELSE call.args[1]

\* C16, amended: the body of each derived metric other than
\* rank_normalized_win_rate and of each aggregate series of the Roster runs at
\* most once per object; the value is stored by the first access and every
\* access returns the stored value.
C16_MemoizedOnce ==
    /\ \A k \in DOMAIN uses :
           k.name \in MemoizedNames =>
               /\ uses[k].computed = 1
               /\ k \in DOMAIN cache
    /\ (pc = "called" /\ call.op \in MemoizedNames /\ IsReturned(result)) =>
           result.value = cache[Key(Owner, call.op)]

\* A stored metric has been read a second time by its accessor.
C16_Witness ==
    /\ pc = "called"
    /\ call.op = "raw_matchup_win_rates"
    /\ IsReturned(result)
    /\ uses[Key(Owner, call.op)].reads >= 2
    /\ uses[Key(Owner, call.op)].computed = 1

\* The (champion_id, role) blobs of the snapshot.
SnapshotBlobs ==
    {<<a, r>> : a \in DOMAIN LOLALYTICS_DATA, r \in RoleSet} \cap
    {p \in ChampionIds \X RoleSet : p[2] \in DOMAIN LOLALYTICS_DATA[p[1]]}

NumberedForm(patch) ==
    \E i \in 1..Len(patch) :
        /\ \A k \in 1..i : patch[k] \in Digits
        /\ i + 2 <= Len(patch)
        /\ patch[i + 1] = "."
        /\ \A k \in (i + 2)..Len(patch) : patch[k] \in Digits

\* A patch list C22 has refused.
Refused(patches) ==
    \/ Len(patches) > 1 /\ \E i \in 1..Len(patches) : patches[i] \in FixedDurationPatches
    \/ \E i \in 1..Len(patches) :
           patches[i] \notin FixedDurationPatches /\ ~NumberedForm(patches[i])

\* C22: a patch list with more than one entry one of which is "7", "14" or
\* "30", or with an entry that is neither of these nor <digits>.<digits>,
\* ends in ValueError with no cache file read, no download made and no
\* cache file written.
C22_ValidatedFirst ==
    (loader.pc \notin {"idle", "start"} /\ Refused(loader.patches)) =>
        /\ loader.pc = "raised"
        /\ loader.err = Raised("ValueError")
        /\ loader.loaded = <<>>
        /\ loader.requests = <<>>
        /\ loader.written = <<>>

\* What C23 takes for a download of patch.
Downloaded(patch) ==
    \/ ~loader.use_cache
    \/ patch \notin DOMAIN loader.files
    \/ /\ patch \in FixedDurationPatches \/ patch = major_minor(loader.latest_patch)
       /\ ~(loader.files[patch].age < OneDay)

\* C23: a patch is downloaded when use_cache is false or it has no cache
\* file; otherwise a numbered patch other than the latest is loaded from
\* the cache whatever the age of the file, and a fixed-duration patch or the
\* latest patch is loaded from the cache only if the file is less than one
\* day old.
C23_CacheDecision ==
    (loader.pc \in {"download", "format"} /\ loader.written = <<>>) =>
        \A i \in 1..Len(loader.patches) :
            /\ loader.patches[i] \in Range(loader.patches_to_update)
                   <=> Downloaded(loader.patches[i])
            /\ loader.patches[i] \in Range(loader.loaded)
                   <=> ~Downloaded(loader.patches[i])

\* C24: cache files are written only after every download of the run has
\* succeeded, and exactly for the patches downloaded: a run that raised has
\* created or modified no file, and the file of a patch loaded from the
\* cache is never rewritten.
C24_SavedAfterDownloads ==
    loader.pc # "idle" =>
        /\ (loader.written # <<>> \/ \E p \in DOMAIN loader.files : loader.files[p].saved) =>
               /\ loader.pc \in {"save", "format", "returned"}
               /\ loader.requests = Todo
        /\ loader.pc = "returned" => loader.written = loader.patches_to_update
        /\ Range(loader.written) \subseteq Range(loader.patches_to_update)
        /\ \A p \in Range(loader.loaded) :
               /\ p \notin Range(loader.written)
               /\ ~loader.files[p].saved
        /\ \A p \in DOMAIN loader.files : loader.files[p].saved <=> p \in Range(loader.written)

\* A run that loaded one patch from the cache, downloaded another and saved
\* it has returned.
C24_Witness ==
    /\ loader.pc = "returned"
    /\ loader.loaded # <<>>
    /\ loader.written # <<>>
    /\ Len(loader.requests) = Len(Roles)

\* format_lolalytics_data has been applied to the raw data call.args[1].
Formatted == call.op = "format_lolalytics_data" /\ call.args # <<>> /\ pc # "loaded"

\* The matches (field 2) or wins (field 3) of the match-up against opponent o
\* of role r in a raw blob, 0 if it has none.
RawCount(blob, r, o, field) ==
    LET at == {i \in 1..Len(blob.enemy[r].v) : blob.enemy[r].v[i][1] = o}
    IN  IF at = {} THEN 0 ELSE blob.enemy[r].v[CHOOSE i \in at : TRUE][field]

RawOpponents(blobs, r) ==
    UNION {{blobs[k].enemy[r].v[i][1] : i \in 1..Len(blobs[k].enemy[r].v)} :
              k \in 1..Len(blobs)}

\* The fields the Champion entity reads.
CarriesChampionFields(blob) ==
    /\ {"header", "avgWinRate", "nav", "enemy"} \subseteq DOMAIN blob
    /\ {"lane", "n", "wr", "pr"} \subseteq DOMAIN blob.header
    /\ "lanes" \in DOMAIN blob.nav
    /\ DOMAIN blob.enemy = RoleSet

\* The match-up records of a merged blob are the sums over the patches.
SumsOverPatches(blob, blobs) ==
    \A r \in RoleSet :
        /\ r \in DOMAIN blob.enemy
        /\ DOMAIN blob.enemy[r].v = RawOpponents(blobs, r)
        /\ \A o \in RawOpponents(blobs, r) :
               /\ blob.enemy[r].v[o].matches =
                      SumOver([k \in 1..Len(blobs) |-> RawCount(blobs[k], r, o, 2)], 1)
               /\ blob.enemy[r].v[o].wins =
                      SumOver([k \in 1..Len(blobs) |-> RawCount(blobs[k], r, o, 3)], 1)
               /\ blob.enemy[r].v[o].win_rate =
                      Frac(blob.enemy[r].v[o].wins, blob.enemy[r].v[o].matches)

\* C25: for a champion-role present in more than one patch each merged
\* match-up record has the summed matches and wins and win_rate =
\* wins/matches, and the merged record carries every field the Champion
\* reads; a champion-role present in one patch is passed through unchanged.
C25_MergePolicy ==
    Formatted =>
        \A key \in Range(RawKeys(call.args[1])) :
            /\ IsReturned(result)
            /\ key.id \in DOMAIN result.value
            /\ key.key \in DOMAIN result.value[key.id]
            /\ IF Len(PatchBlobs(call.args[1], key.id, key.key)) > 1
               THEN /\ CarriesChampionFields(result.value[key.id][key.key])
                    /\ SumsOverPatches(result.value[key.id][key.key],
                                       PatchBlobs(call.args[1], key.id, key.key))
               ELSE result.value[key.id][key.key] =
                        FormatEnemyFields(PatchBlobs(call.args[1], key.id, key.key)[1],
                                          1, TRUE).data

InUnit(x) == RGe(x, Zero) /\ RGe(One, x)

\* The opponents the loop of blind_expected_win_rate went through in the
\* call just made.
LoopOpponents == opponent_champions(call.args[1], call.args[3])

\* C26: in blind_expected_win_rate the remaining probability mass stays in
\* [0, 1] and never increases, and the mass assigned so far plus the
\* remaining mass is 1, after each opponent; when every eligible opponent's
\* pick rate and match-up win rate lie in [0, 1] the returned value lies in
\* [0, 1] and is at most the highest match-up win rate among them.
C26_MassConserved ==
    (Called("blind_expected_win_rate") /\ IsReturned(result)) =>
        /\ \A i \in 1..Len(LoopOpponents) :
               /\ InUnit(percent_remaining_after(LoopOpponents, i, call.args[2]))
               /\ RGe(percent_remaining_after(LoopOpponents, i - 1, call.args[2]),
                      percent_remaining_after(LoopOpponents, i, call.args[2]))
               /\ RAdd(probabillity_assigned(LoopOpponents, i, call.args[2]),
                       percent_remaining_after(LoopOpponents, i, call.args[2])) = One
        /\ (\A o \in Range(LoopOpponents) :
                /\ InUnit(pick_rate(o))
                /\ InUnit(get_raw_matchup_win_rate_by_champion(call.args[1], o))) =>
               /\ InUnit(result.value)
               /\ LoopOpponents # <<>> =>
                      \E o \in Range(LoopOpponents) :
                          RGe(get_raw_matchup_win_rate_by_champion(call.args[1], o),
                              result.value)

\* A blind pick against two opponents with recorded match-ups and a pool of
\* two champions returned a positive estimate.
C26_Witness ==
    /\ Called("blind_expected_win_rate")
    /\ IsReturned(result)
    /\ call.args[2] = 2
    /\ Len(LoopOpponents) = 2
    /\ \A o \in Range(LoopOpponents) :
           InUnit(get_raw_matchup_win_rate_by_champion(call.args[1], o))
    /\ RGt(result.value, Zero)
    /\ RGt(One, percent_remaining_after(LoopOpponents, 2, 2))

\* C27: banning never lowers the blind-pick estimate: for every valid
\* opponent o of the caller's role other than the caller,
\* blind_expected_win_rate(N, o) >= blind_expected_win_rate(N).
C27_BanNeverLowers ==
    (/\ Called("blind_expected_win_rate")
     /\ IsReturned(result)
     /\ call.args[3] \in Range(ban_candidates(call.args[1]))) =>
        RGe(result.value, blind_expected_win_rate(call.args[1], call.args[2], None))

====
